---- MODULE Spec2Model ----
(***************************************************************************)
(* MiniC translation core: the AST -> linear IR translator of              *)
(* ir/Generator/IRGenerator.cpp over the Module/Function containers, and   *)
(* the lowering and execution of the IR a translated function holds, after *)
(* backend/arm32/InstSelectorArm32.cpp.                                    *)
(*                                                                         *)
(* An AST node is a record (node_type, sons, name, integer_val, type); a   *)
(* Value is a record (kind, id, ty, name); an instruction is a record with *)
(* its opcode, operands, label targets and, as bookkeeping for the         *)
(* properties, the path of the AST node whose handler created it.          *)
(***************************************************************************)
EXTENDS Integers, Sequences, FiniteSets, TLC

VARIABLES
    root,               \* the compile unit handed to IRGenerator::run
    pc,                 \* "translate" | "translated" | "failed" | "renamed" | "exec" | "done" | "stuck"
                        \* | "select" | "selected" while and after InstSelectorArm32::run
    module,             \* Module + IRGenerator state: funcs, cur, scopeStack, loop_label_stack, nextId
    result,             \* "none" | "ok" | "fail" | "abort" | "segv"
    input,              \* run-time inputs: the argument of the executed function, what a call returns
    fn,                 \* index of the executed function, 0 before execution
    ip,                 \* index of the next instruction of the executed function
    env,                \* run-time value of each Value that has been written
    mem,                \* run-time memory of the arrays, by (base, byte offset)
    trace,              \* indices of the instructions executed so far, in order
    lowered             \* what the selector made of the Move or call handled last:
                        \* the assembly, each line with the registers allocated
                        \* when it was emitted, and the values passed as arguments

vars == <<root, pc, module, result, input, fn, ip, env, mem, trace, lowered>>

\* Bounds of the checked instances.
MaxSteps == 40      \* instructions executed in one run
MaxDepth == 2       \* nesting depth of the generated expressions
MaxNest == 2        \* nesting depth of the generated statements
MaxDims == 2        \* dimensions of the generated arrays

(***************************************************************************)
(* Types and Values                                                        *)
(***************************************************************************)
T(k) == [k |-> k, dims |-> <<>>]
I32 == T("i32")
I1 == T("i1")
VoidT == T("void")
PtrT == T("ptr")
ArrT(dims) == [k |-> "array", dims |-> dims]

isInt1Byte(ty) == ty.k = "i1"
isInt32Type(ty) == ty.k = "i32"
isVoidType(ty) == ty.k = "void"
isPointerType(ty) == ty.k = "ptr"
isArrayType(ty) == ty.k = "array"

V(kind, id, ty, name) == [kind |-> kind, id |-> id, ty |-> ty, name |-> name]
Null == V("null", 0, VoidT, "")
IsNull(v) == v.kind = "null"

\* Module::newConstInt: the interned constant of a value.
newConstInt(v) == V("const", v, I32, "")

(***************************************************************************)
(* AST nodes                                                               *)
(***************************************************************************)
N(t, sons) == [node_type |-> t, sons |-> sons, name |-> "", integer_val |-> 0, type |-> VoidT]
Id(name) == [N("var_id", <<>>) EXCEPT !.name = name]
Lit(v) == [N("uint", <<>>) EXCEPT !.integer_val = v]
Ty(t) == [N("type", <<>>) EXCEPT !.type = t]
EmptyDim == N("empty_dim", <<>>)

Block(stmts) == N("block", stmts)
Call(name, args) == N("call", <<Id(name), N("real_params", args)>>)
Assign(l, r) == N("assign", <<l, r>>)
Ret(e) == N("return", <<e>>)
RetVoid == N("return", <<>>)
If(c, t) == N("if", <<c, t>>)
IfElse(c, t, e) == N("if", <<c, t, e>>)
While(c, b) == N("while", <<c, b>>)
Break == N("break", <<>>)
Continue == N("continue", <<>>)
Bin(op, l, r) == N(op, <<l, r>>)
Neg(e) == N("neg", <<e>>)
Not(e) == N("not", <<e>>)
VarDecl(name) == N("var_decl", <<Ty(I32), Id(name)>>)
VarInit(name, e) == N("var_init", <<Id(name), e>>)
ArrayDecl(name, dims) == N("array_decl", <<Id(name), N("array_dim", dims)>>)
ArrayRef(name, idx) == N("array_ref", <<Id(name), N("array_dim", idx)>>)
Decl(ds) == N("decl_stmt", ds)
Param(name) == N("formal_param", <<Ty(I32), Id(name)>>)
ArrParam(name, dims) == N("formal_param", <<Ty(I32), ArrayDecl(name, dims)>>)
FuncDef(ty, name, params, body) == N("func_def", <<Ty(ty), Id(name), N("formal_params", params), Block(body)>>)
Unit(sons) == N("compile_unit", sons)

(***************************************************************************)
(* Instructions                                                            *)
(***************************************************************************)
Inst(op, id, ty, ops, t, f, by, role) ==
    [op |-> op, id |-> id, ty |-> ty, ops |-> ops, t |-> t, f |-> f,
     callee |-> "", dead |-> FALSE, by |-> by, role |-> role]

\* An instruction used as an operand is the Value it produces.
AsValue(inst) == V("inst", inst.id, inst.ty, "")

LabelInstruction(id, by, role) == Inst("label", id, VoidT, <<>>, 0, 0, by, role)
GotoInstruction(target, by, role) == Inst("goto", 0, VoidT, <<>>, target, 0, by, role)
BranchInstruction(cond, t, f, by) == Inst("bc", 0, VoidT, <<cond>>, t, f, by, "bc")
MoveInstruction(dst, src, by, role) == Inst("assign", 0, VoidT, <<dst, src>>, 0, 0, by, role)
BinaryInstruction(op, id, l, r, ty, by, role) == Inst(op, id, ty, <<l, r>>, 0, 0, by, role)
EntryInstruction(by) == Inst("entry", 0, VoidT, <<>>, 0, 0, by, "entry")
ExitInstruction(ret, by) == Inst("exit", 0, VoidT, <<ret>>, 0, 0, by, "exit")
FuncCallInstruction(id, callee, args, ty, by) ==
    [Inst("call", id, ty, args, 0, 0, by, "call") EXCEPT !.callee = callee]

CmpOps == {"cmp_eq", "cmp_ne", "cmp_lt", "cmp_le", "cmp_gt", "cmp_ge"}
ArithOps == {"add", "sub", "mul", "div", "mod"}

(***************************************************************************)
(* Module and Function containers                                          *)
(***************************************************************************)
\* A FormalParam: its Value and, for an array parameter, the dimensions of
\* the original array type it remembers.
FormalParam(id, ty, name, isArray, dims) ==
    [val |-> V("formal", id, ty, name), isArrayParam |-> isArray, originalDims |-> dims]

Function(name, returnType, params, builtIn) ==
    [name |-> name, returnType |-> returnType, params |-> params, builtIn |-> builtIn,
     code |-> <<>>, exitLabel |-> 0, returnValue |-> Null, irNames |-> <<>>,
     varsVector |-> <<>>, memVector |-> <<>>,
     funcCallExist |-> FALSE, maxFuncCallArgCnt |-> 0]

\* The functions a Module declares on construction.
Builtins ==
    << Function("getint", I32, <<>>, TRUE),
       Function("putint", VoidT, <<FormalParam(1, I32, "k", FALSE, <<>>)>>, TRUE),
       Function("getch", I32, <<>>, TRUE),
       Function("putch", VoidT, <<FormalParam(2, I32, "c", FALSE, <<>>)>>, TRUE),
       Function("getarray", I32, <<FormalParam(3, PtrT, "a", TRUE, <<0>>)>>, TRUE),
       Function("putarray", VoidT, <<FormalParam(4, I32, "n", FALSE, <<>>),
                                      FormalParam(5, PtrT, "a", TRUE, <<0>>)>>, TRUE) >>

\* The Module after construction, with the generator's loop label stack.
NewModule ==
    [funcs |-> Builtins, cur |-> 0, scopeStack |-> << <<>> >>, globals |-> <<>>,
     loop_label_stack |-> <<>>, nextId |-> 6]

\* Module::findFunction: the index of the function of that name, 0 when absent.
findFunction(st, name) ==
    LET hits == {i \in 1..Len(st.funcs) : st.funcs[i].name = name}
    IN IF hits = {} THEN 0 ELSE CHOOSE i \in hits : TRUE

\* Module::newFunction: 0 (nullptr) when the name is already defined.
newFunction(st, name, returnType, params) ==
    IF findFunction(st, name) # 0
    THEN [idx |-> 0, st |-> st]
    ELSE [idx |-> Len(st.funcs) + 1,
          st |-> [st EXCEPT !.funcs = Append(@, Function(name, returnType, params, FALSE))]]

enterScope(st) == [st EXCEPT !.scopeStack = Append(@, <<>>)]
leaveScope(st) == [st EXCEPT !.scopeStack = SubSeq(@, 1, Len(@) - 1)]

\* The Value bound to name in one scope, Null when the scope has none.
findInScope(scope, name) ==
    LET hits == {i \in 1..Len(scope) : scope[i].name = name}
    IN IF hits = {} THEN Null ELSE scope[CHOOSE i \in hits : TRUE].val

\* Module::findVarValue: innermost scope first, then outwards to the globals.
findVarValue(st, name) ==
    LET hits == {l \in 1..Len(st.scopeStack) : ~IsNull(findInScope(st.scopeStack[l], name))}
    IN IF hits = {} THEN Null
       ELSE findInScope(st.scopeStack[CHOOSE l \in hits : \A m \in hits : m <= l], name)

\* Function::newLocalVarValue
newLocalVarValue(st, ty, name) ==
    LET v == V("local", st.nextId, ty, name)
    IN [val |-> v,
        st |-> [st EXCEPT !.nextId = @ + 1, !.funcs[st.cur].varsVector = Append(@, v)]]

\* Function::newMemVariable
newMemVariable(st, ty) ==
    LET v == V("mem", st.nextId, ty, "")
    IN [val |-> v,
        st |-> [st EXCEPT !.nextId = @ + 1, !.funcs[st.cur].memVector = Append(@, v)]]

\* GlobalVariable(type, name): in the BSS section, without an initial value.
GlobalVariable(v) == [val |-> v, inBSSSection |-> TRUE, initialValue |-> Null]

\* GlobalVariable::setInitialValue
setInitialValue(g, value) ==
    [g EXCEPT !.initialValue = value,
              !.inBSSSection = IF IsNull(value) THEN @ ELSE FALSE]

\* Module::newGlobalVariable
newGlobalVariable(st, ty, name) ==
    LET v == V("global", st.nextId, ty, name)
    IN [val |-> v, st |-> [st EXCEPT !.nextId = @ + 1, !.globals = Append(@, GlobalVariable(v))]]

\* Module::newVarValue: Null when a named variable already exists in the
\* current scope (or an unnamed one is asked for outside any function);
\* otherwise a local of the current function, or a global, entered in the
\* current scope.
newVarValue(st, ty, name) ==
    IF name # "" /\ ~IsNull(findInScope(st.scopeStack[Len(st.scopeStack)], name))
    THEN [val |-> Null, st |-> st]
    ELSE IF name = "" /\ st.cur = 0
    THEN [val |-> Null, st |-> st]
    ELSE LET made == IF st.cur # 0 THEN newLocalVarValue(st, ty, name)
                                   ELSE newGlobalVariable(st, ty, name)
         IN [val |-> made.val,
             st |-> IF name = "" THEN made.st
                    ELSE [made.st EXCEPT !.scopeStack[Len(st.scopeStack)] =
                                             Append(@, [name |-> name, val |-> made.val])]]

(***************************************************************************)
(* The translator: every handler takes the node, the node's path from the  *)
(* root and the Module state, and returns (ok, val, insts, st): whether it *)
(* returned true ("ok"), false ("fail") or ended the process ("crash"),    *)
(* node->val, node->blockInsts and the Module state it leaves.             *)
(***************************************************************************)
R(ok, val, insts, st) == [ok |-> ok, val |-> val, insts |-> insts, st |-> st]
Failed(st) == R("fail", Null, <<>>, st)
\* A handler that stops because a son's visit did not succeed.
Stop(r) == R(r.ok, Null, <<>>, r.st)
\* The process ends inside the handler.
Crash(st) == R("crash", Null, <<>>, st)

\* A handler goes on with the node a visit returned, and returns false when
\* the visit returned nullptr.
Then(r, K(_)) == IF r.ok # "ok" THEN Stop(r) ELSE K(r)
\* A handler goes on with a value it has computed.
With(x, K(_)) == K(x)

\* The node at a path below a node.
RECURSIVE NodeAt(_, _)
NodeAt(node, p) == IF p = <<>> THEN node ELSE NodeAt(node.sons[Head(p)], Tail(p))

RECURSIVE ir_visit_ast_node(_, _, _)
RECURSIVE generate_branch_for_condition(_, _, _, _, _)

ir_leaf_node_type(node, p, st) == R("ok", Null, <<>>, st)

ir_default(node, p, st) == R("ok", Null, <<>>, st)

ir_leaf_node_var_id(node, p, st) == R("ok", findVarValue(st, node.name), <<>>, st)

ir_leaf_node_uint(node, p, st) == R("ok", newConstInt(node.integer_val), <<>>, st)

\* ir_add, ir_sub, ir_mul, ir_div, ir_mod: the five handlers differ in the opcode only.
ir_arith(node, p, st, op) ==
    Then(ir_visit_ast_node(node.sons[1], p \o <<1>>, st), LAMBDA left :
    Then(ir_visit_ast_node(node.sons[2], p \o <<2>>, left.st), LAMBDA right :
    LET inst == BinaryInstruction(op, right.st.nextId, left.val, right.val, I32, p, "arith")
    IN R("ok", AsValue(inst), left.insts \o right.insts \o <<inst>>,
         [right.st EXCEPT !.nextId = @ + 1])))

ir_add(node, p, st) == ir_arith(node, p, st, "add")
ir_sub(node, p, st) == ir_arith(node, p, st, "sub")
ir_mul(node, p, st) == ir_arith(node, p, st, "mul")
ir_div(node, p, st) == ir_arith(node, p, st, "div")
ir_mod(node, p, st) == ir_arith(node, p, st, "mod")

\* ir_lt, ir_le, ir_gt, ir_ge, ir_eq, ir_ne: the six handlers differ in the opcode only.
ir_cmp(node, p, st, op) ==
    IF Len(node.sons) # 2 THEN Failed(st) ELSE
    Then(ir_visit_ast_node(node.sons[1], p \o <<1>>, st), LAMBDA left :
    IF IsNull(left.val) THEN Failed(left.st) ELSE
    Then(ir_visit_ast_node(node.sons[2], p \o <<2>>, left.st), LAMBDA right :
    IF IsNull(right.val) \/ right.st.cur = 0 THEN Failed(right.st) ELSE
    LET inst == BinaryInstruction(op, right.st.nextId, left.val, right.val, I1, p, "cmp")
    IN R("ok", AsValue(inst), left.insts \o right.insts \o <<inst>>,
         [right.st EXCEPT !.nextId = @ + 1])))

ir_lt(node, p, st) == ir_cmp(node, p, st, "cmp_lt")
ir_le(node, p, st) == ir_cmp(node, p, st, "cmp_le")
ir_gt(node, p, st) == ir_cmp(node, p, st, "cmp_gt")
ir_ge(node, p, st) == ir_cmp(node, p, st, "cmp_ge")
ir_eq(node, p, st) == ir_cmp(node, p, st, "cmp_eq")
ir_ne(node, p, st) == ir_cmp(node, p, st, "cmp_ne")

CmpOpOf(node_type) ==
    CASE node_type = "eq" -> "cmp_eq" [] node_type = "ne" -> "cmp_ne"
      [] node_type = "lt" -> "cmp_lt" [] node_type = "le" -> "cmp_le"
      [] node_type = "gt" -> "cmp_gt" [] node_type = "ge" -> "cmp_ge"

ir_assign(node, p, st) ==
    Then(ir_visit_ast_node(node.sons[1], p \o <<1>>, st), LAMBDA left :
    Then(ir_visit_ast_node(node.sons[2], p \o <<2>>, left.st), LAMBDA right :
    R("ok", Null,
      right.insts \o left.insts \o <<MoveInstruction(left.val, right.val, p, "assign")>>,
      right.st)))

\* A return that leaves the function on the spot, with an Exit of its own.
ir_return_exit(node, p, st) ==
    IF node.sons # <<>>
    THEN Then(ir_visit_ast_node(node.sons[1], p \o <<1>>, st), LAMBDA right :
         R("ok", right.val,
           right.insts \o <<MoveInstruction(st.funcs[st.cur].returnValue, right.val, p, "ret_move"),
                            ExitInstruction(st.funcs[st.cur].returnValue, p)>>,
           right.st))
    ELSE R("ok", Null, <<ExitInstruction(st.funcs[st.cur].returnValue, p)>>, st)

ir_return(node, p, st) ==
    IF node.sons # <<>>
    THEN Then(ir_visit_ast_node(node.sons[1], p \o <<1>>, st), LAMBDA right :
         R("ok", right.val,
           right.insts \o <<MoveInstruction(st.funcs[st.cur].returnValue, right.val, p, "ret_move"),
                            GotoInstruction(st.funcs[st.cur].exitLabel, p, "ret_goto")>>,
           right.st))
    ELSE R("ok", Null, <<GotoInstruction(st.funcs[st.cur].exitLabel, p, "ret_goto")>>, st)

ir_variable_declare(node, p, st) ==
    With(newVarValue(st, node.sons[1].type, node.sons[2].name), LAMBDA made :
    R("ok", made.val, <<>>, made.st))

ir_variable_initialize(node, p, st) ==
    IF Len(node.sons) # 2 THEN Failed(st) ELSE
    Then(ir_visit_ast_node(node.sons[2], p \o <<2>>, st), LAMBDA visited_expr :
    IF IsNull(visited_expr.val) THEN Failed(visited_expr.st) ELSE
    With(newVarValue(visited_expr.st, visited_expr.val.ty, node.sons[1].name), LAMBDA made :
    IF IsNull(made.val) THEN Failed(made.st) ELSE
    R("ok", made.val,
      visited_expr.insts \o <<MoveInstruction(made.val, visited_expr.val, p, "init")>>,
      made.st)))

\* The loop of ir_function_call over the argument expressions, left to right.
RECURSIVE VisitRealParams(_, _, _, _, _, _)
VisitRealParams(sons, i, p, st, realParams, insts) ==
    IF i > Len(sons) THEN R("ok", Null, insts, st) @@ [realParams |-> realParams] ELSE
    With(ir_visit_ast_node(sons[i], p \o <<i>>, st), LAMBDA temp :
    IF temp.ok # "ok" THEN Stop(temp) @@ [realParams |-> realParams]
    ELSE VisitRealParams(sons, i + 1, p, temp.st, Append(realParams, temp.val), insts \o temp.insts))

ir_function_call(node, p, st) ==
    With(findFunction(st, node.sons[1].name), LAMBDA calledFunction :
    IF calledFunction = 0 THEN Failed(st) ELSE
    \* currentFunc->setExistFuncCall with no current function: a null dereference
    IF st.cur = 0 THEN Crash(st) ELSE
    With(VisitRealParams(node.sons[2].sons, 1, p \o <<2>>,
                         [st EXCEPT !.funcs[st.cur].funcCallExist = TRUE,
                                    !.funcs[st.cur].maxFuncCallArgCnt =
                                        IF Len(node.sons[2].sons) > @ THEN Len(node.sons[2].sons) ELSE @],
                         <<>>, <<>>), LAMBDA args :
    IF args.ok # "ok" THEN Stop(args) ELSE
    IF Len(args.realParams) # Len(st.funcs[calledFunction].params) THEN Failed(args.st) ELSE
    LET funcCallInst == FuncCallInstruction(args.st.nextId, st.funcs[calledFunction].name,
                                            args.realParams, st.funcs[calledFunction].returnType, p)
    IN R("ok", AsValue(funcCallInst), args.insts \o <<funcCallInst>>,
         [args.st EXCEPT !.nextId = @ + 1])))

\* The loop of ir_block over the statements.
RECURSIVE VisitStatements(_, _, _, _, _)
VisitStatements(sons, i, p, st, insts) ==
    IF i > Len(sons) THEN R("ok", Null, insts, st) ELSE
    With(ir_visit_ast_node(sons[i], p \o <<i>>, st), LAMBDA temp :
    IF temp.ok # "ok" THEN Stop(temp)
    ELSE VisitStatements(sons, i + 1, p, temp.st, insts \o temp.insts))

\* ir_block; needScope is the node's flag, cleared for a function body.
ir_block(node, p, st, needScope) ==
    With(VisitStatements(node.sons, 1, p, IF needScope THEN enterScope(st) ELSE st, <<>>), LAMBDA body :
    IF body.ok # "ok" THEN body
    ELSE R("ok", Null, body.insts, IF needScope THEN leaveScope(body.st) ELSE body.st))

ir_neg(node, p, st) ==
    Then(ir_visit_ast_node(node.sons[1], p \o <<1>>, st), LAMBDA operand :
    IF IsNull(operand.val) THEN Failed(operand.st) ELSE
    IF isInt1Byte(operand.val.ty) THEN
        \* currentFunc->newLocalVarValue with no current function: a null dereference
        IF operand.st.cur = 0 THEN Crash(operand.st) ELSE
        With(newLocalVarValue(operand.st, I32, "neg_i1_to_i32_val"), LAMBDA tmp :
        LET id == tmp.st.nextId
        IN R("ok", V("inst", id + 3, I32, ""),
             operand.insts \o
             << BranchInstruction(operand.val, id, id + 1, p),
                LabelInstruction(id, p, "neg_one"),
                MoveInstruction(tmp.val, newConstInt(1), p, "neg_set"),
                GotoInstruction(id + 2, p, "neg_goto"),
                LabelInstruction(id + 1, p, "neg_zero"),
                MoveInstruction(tmp.val, newConstInt(0), p, "neg_set"),
                GotoInstruction(id + 2, p, "neg_goto"),
                LabelInstruction(id + 2, p, "neg_continue"),
                BinaryInstruction("sub", id + 3, newConstInt(0), tmp.val, I32, p, "neg") >>,
             [tmp.st EXCEPT !.nextId = id + 4]))
    ELSE IF isInt32Type(operand.val.ty) THEN
        LET negInst == BinaryInstruction("sub", operand.st.nextId, newConstInt(0), operand.val, I32, p, "neg")
        IN R("ok", AsValue(negInst), operand.insts \o <<negInst>>,
             [operand.st EXCEPT !.nextId = @ + 1])
    ELSE Failed(operand.st))

\* new ConstInt(false): a constant made outside the Module's interning.
RawConstFalse == V("const", 0, I32, "new")

ir_logical_not(node, p, st) ==
    Then(ir_visit_ast_node(node.sons[1], p \o <<1>>, st), LAMBDA operand :
    IF IsNull(operand.val) THEN Failed(operand.st) ELSE
    IF isInt32Type(operand.val.ty) THEN
        LET id == operand.st.nextId
            cmp_ne_zero == BinaryInstruction("cmp_ne", id, operand.val, newConstInt(0), I1, p, "not_ne")
        IN R("ok", V("inst", id + 1, I1, ""),
             operand.insts \o
             <<cmp_ne_zero,
               BinaryInstruction("cmp_eq", id + 1, AsValue(cmp_ne_zero), RawConstFalse, I1, p, "not")>>,
             [operand.st EXCEPT !.nextId = id + 2])
    ELSE IF isInt1Byte(operand.val.ty) THEN
        LET final_cmp_eq_false ==
                BinaryInstruction("cmp_eq", operand.st.nextId, operand.val, RawConstFalse, I1, p, "not")
        IN R("ok", AsValue(final_cmp_eq_false), operand.insts \o <<final_cmp_eq_false>>,
             [operand.st EXCEPT !.nextId = @ + 1])
    ELSE Failed(operand.st))

\* ir_logical_and and ir_logical_or are the same code: both operands are
\* visited, their instructions appended one after the other, node->val = nullptr.
ir_logical(node, p, st) ==
    Then(ir_visit_ast_node(node.sons[1], p \o <<1>>, st), LAMBDA lhs_visited :
    Then(ir_visit_ast_node(node.sons[2], p \o <<2>>, lhs_visited.st), LAMBDA rhs_visited :
    R("ok", Null, lhs_visited.insts \o rhs_visited.insts, rhs_visited.st)))

ir_logical_and(node, p, st) == ir_logical(node, p, st)
ir_logical_or(node, p, st) == ir_logical(node, p, st)

\* generate_branch_for_condition returns nothing: a visit that fails, or that
\* yields no value, makes it return early with nothing appended, and its
\* caller carries on.  Only the end of the process gets through.
Visited(r, K(_)) ==
    IF r.ok = "crash" THEN Stop(r)
    ELSE IF r.ok = "fail" \/ IsNull(r.val) THEN R("ok", Null, <<>>, r.st)
    ELSE K(r)

generate_branch_for_condition(condition_node, p, true_target, false_target, st) ==
    IF condition_node.node_type \in {"eq", "ne", "lt", "le", "gt", "ge"} THEN
        Visited(ir_visit_ast_node(condition_node.sons[1], p \o <<1>>, st), LAMBDA left :
        Visited(ir_visit_ast_node(condition_node.sons[2], p \o <<2>>, left.st), LAMBDA right :
        LET cmp_inst == BinaryInstruction(CmpOpOf(condition_node.node_type), right.st.nextId,
                                          left.val, right.val, I1, p, "cmp")
        IN R("ok", Null,
             left.insts \o right.insts \o
             <<cmp_inst, BranchInstruction(AsValue(cmp_inst), true_target, false_target, p)>>,
             [right.st EXCEPT !.nextId = @ + 1])))
    ELSE IF condition_node.node_type = "not" THEN
        generate_branch_for_condition(condition_node.sons[1], p \o <<1>>, false_target, true_target, st)
    ELSE IF condition_node.node_type \in {"and", "or"} THEN
        \* check_expr2_label is st.nextId
        Then(IF condition_node.node_type = "and"
            THEN generate_branch_for_condition(condition_node.sons[1], p \o <<1>>, st.nextId, false_target,
                                               [st EXCEPT !.nextId = @ + 1])
            ELSE generate_branch_for_condition(condition_node.sons[1], p \o <<1>>, true_target, st.nextId,
                                               [st EXCEPT !.nextId = @ + 1]), LAMBDA expr1 :
        Then(generate_branch_for_condition(condition_node.sons[2], p \o <<2>>,
                                          true_target, false_target, expr1.st), LAMBDA expr2 :
        R("ok", Null,
          expr1.insts \o <<LabelInstruction(st.nextId, p, "check_expr2")>> \o expr2.insts,
          expr2.st)))
    ELSE
        Visited(ir_visit_ast_node(condition_node, p, st), LAMBDA cond :
        IF isInt1Byte(cond.val.ty) THEN
            R("ok", Null, cond.insts \o <<BranchInstruction(cond.val, true_target, false_target, p)>>, cond.st)
        ELSE IF isInt32Type(cond.val.ty) THEN
            LET ne_zero_inst == BinaryInstruction("cmp_ne", cond.st.nextId, cond.val, newConstInt(0),
                                                  I1, p, "cond_ne")
            IN R("ok", Null,
                 cond.insts \o <<ne_zero_inst,
                                 BranchInstruction(AsValue(ne_zero_inst), true_target, false_target, p)>>,
                 [cond.st EXCEPT !.nextId = @ + 1])
        ELSE R("ok", Null, cond.insts, cond.st))

\* assert(visited != nullptr) followed by visited->blockInsts: when the visit
\* returned nullptr the process ends, by the assertion or by the dereference.
Asserted(r, K(_)) == IF r.ok # "ok" THEN Crash(r.st) ELSE K(r)

\* An if statement that uses one label for the else part and the end.
ir_if_statement_shared(node, p, st) ==
    IF Len(node.sons) \notin {2, 3} THEN Failed(st) ELSE
    IF st.cur = 0 THEN Crash(st) ELSE
    Then(generate_branch_for_condition(node.sons[1], p \o <<1>>, st.nextId, st.nextId + 1,
                                      [st EXCEPT !.nextId = @ + 2]), LAMBDA cond :
    Asserted(ir_visit_ast_node(node.sons[2], p \o <<2>>, cond.st), LAMBDA then_block_visited :
    IF Len(node.sons) = 2
    THEN R("ok", Null,
           cond.insts \o <<LabelInstruction(st.nextId, p, "if_true")>> \o then_block_visited.insts
           \o <<GotoInstruction(st.nextId + 1, p, "if_goto"), LabelInstruction(st.nextId + 1, p, "if_end")>>,
           then_block_visited.st)
    ELSE Asserted(ir_visit_ast_node(node.sons[3], p \o <<3>>, then_block_visited.st),
                  LAMBDA else_block_visited :
         R("ok", Null,
           cond.insts \o <<LabelInstruction(st.nextId, p, "if_true")>> \o then_block_visited.insts
           \o <<GotoInstruction(st.nextId + 1, p, "if_goto"), LabelInstruction(st.nextId + 1, p, "if_false")>>
           \o else_block_visited.insts \o <<LabelInstruction(st.nextId + 1, p, "if_end")>>,
           else_block_visited.st))))

\* An if statement that creates and appends a false label of its own
\* whether or not there is an else part.
ir_if_statement_spare(node, p, st) ==
    IF Len(node.sons) \notin {2, 3} THEN Failed(st) ELSE
    IF st.cur = 0 THEN Crash(st) ELSE
    Then(generate_branch_for_condition(node.sons[1], p \o <<1>>, st.nextId, st.nextId + 2,
                                      [st EXCEPT !.nextId = @ + 3]), LAMBDA cond :
    Asserted(ir_visit_ast_node(node.sons[2], p \o <<2>>, cond.st), LAMBDA then_block_visited :
    Asserted(IF Len(node.sons) = 2 THEN R("ok", Null, <<>>, then_block_visited.st)
             ELSE ir_visit_ast_node(node.sons[3], p \o <<3>>, then_block_visited.st),
             LAMBDA else_block_visited :
    R("ok", Null,
      cond.insts \o <<LabelInstruction(st.nextId, p, "if_true")>> \o then_block_visited.insts
      \o <<GotoInstruction(st.nextId + 1, p, "if_goto"), LabelInstruction(st.nextId + 2, p, "if_false")>>
      \o else_block_visited.insts \o <<LabelInstruction(st.nextId + 1, p, "if_end")>>,
      else_block_visited.st))))

\* true_label, endif_label and, with an else part, the false label are
\* st.nextId, st.nextId + 1 and st.nextId + 2.
ir_if_statement(node, p, st) ==
    IF Len(node.sons) \notin {2, 3} THEN Failed(st) ELSE
    IF st.cur = 0 THEN Crash(st) ELSE
    Then(generate_branch_for_condition(node.sons[1], p \o <<1>>, st.nextId,
                                      IF Len(node.sons) = 3 THEN st.nextId + 2 ELSE st.nextId + 1,
                                      [st EXCEPT !.nextId = @ + Len(node.sons)]), LAMBDA cond :
    Asserted(ir_visit_ast_node(node.sons[2], p \o <<2>>, cond.st), LAMBDA then_block_visited :
    IF Len(node.sons) = 2
    THEN R("ok", Null,
           cond.insts \o <<LabelInstruction(st.nextId, p, "if_true")>> \o then_block_visited.insts
           \o <<GotoInstruction(st.nextId + 1, p, "if_goto"), LabelInstruction(st.nextId + 1, p, "if_end")>>,
           then_block_visited.st)
    ELSE Asserted(ir_visit_ast_node(node.sons[3], p \o <<3>>, then_block_visited.st),
                  LAMBDA else_block_visited :
         R("ok", Null,
           cond.insts \o <<LabelInstruction(st.nextId, p, "if_true")>> \o then_block_visited.insts
           \o <<GotoInstruction(st.nextId + 1, p, "if_goto"), LabelInstruction(st.nextId + 2, p, "if_false")>>
           \o else_block_visited.insts \o <<LabelInstruction(st.nextId + 1, p, "if_end")>>,
           else_block_visited.st))))

PopLoop(st) == [st EXCEPT !.loop_label_stack = SubSeq(@, 1, Len(@) - 1)]

\* A while statement that pops its labels only when its body succeeded.
ir_while_statement_kept_on_error(node, p, st) ==
    IF Len(node.sons) # 2 \/ st.cur = 0 THEN Crash(st) ELSE
    Then(generate_branch_for_condition(node.sons[1], p \o <<1>>, st.nextId + 1, st.nextId + 2,
            [st EXCEPT !.nextId = @ + 3,
                       !.loop_label_stack = Append(@, <<st.nextId, st.nextId + 2>>)]), LAMBDA cond :
    With(ir_visit_ast_node(node.sons[2], p \o <<2>>, cond.st), LAMBDA body_visited :
    IF body_visited.ok # "ok" THEN Stop(body_visited) ELSE
    R("ok", Null,
      <<LabelInstruction(st.nextId, p, "while_cond")>> \o cond.insts
      \o <<LabelInstruction(st.nextId + 1, p, "while_body")>> \o body_visited.insts
      \o <<GotoInstruction(st.nextId, p, "while_goto"), LabelInstruction(st.nextId + 2, p, "while_exit")>>,
      PopLoop(body_visited.st))))

\* A while statement that leaves its labels on the loop label stack.
ir_while_statement_unpopped(node, p, st) ==
    IF Len(node.sons) # 2 \/ st.cur = 0 THEN Crash(st) ELSE
    Then(generate_branch_for_condition(node.sons[1], p \o <<1>>, st.nextId + 1, st.nextId + 2,
            [st EXCEPT !.nextId = @ + 3,
                       !.loop_label_stack = Append(@, <<st.nextId, st.nextId + 2>>)]), LAMBDA cond :
    With(ir_visit_ast_node(node.sons[2], p \o <<2>>, cond.st), LAMBDA body_visited :
    IF body_visited.ok # "ok" THEN Stop(body_visited) ELSE
    R("ok", Null,
      <<LabelInstruction(st.nextId, p, "while_cond")>> \o cond.insts
      \o <<LabelInstruction(st.nextId + 1, p, "while_body")>> \o body_visited.insts
      \o <<GotoInstruction(st.nextId, p, "while_goto"), LabelInstruction(st.nextId + 2, p, "while_exit")>>,
      body_visited.st)))

\* condition_check_label, body_entry_label and loop_exit_label are
\* st.nextId, st.nextId + 1 and st.nextId + 2.
ir_while_statement(node, p, st) ==
    IF Len(node.sons) # 2 \/ st.cur = 0 THEN Crash(st) ELSE
    Then(generate_branch_for_condition(node.sons[1], p \o <<1>>, st.nextId + 1, st.nextId + 2,
            [st EXCEPT !.nextId = @ + 3,
                       !.loop_label_stack = Append(@, <<st.nextId, st.nextId + 2>>)]), LAMBDA cond :
    With(ir_visit_ast_node(node.sons[2], p \o <<2>>, cond.st), LAMBDA body_visited :
    IF body_visited.ok = "fail" THEN Failed(PopLoop(body_visited.st)) ELSE
    IF body_visited.ok # "ok" THEN Stop(body_visited) ELSE
    R("ok", Null,
      <<LabelInstruction(st.nextId, p, "while_cond")>> \o cond.insts
      \o <<LabelInstruction(st.nextId + 1, p, "while_body")>> \o body_visited.insts
      \o <<GotoInstruction(st.nextId, p, "while_goto"), LabelInstruction(st.nextId + 2, p, "while_exit")>>,
      PopLoop(body_visited.st))))

\* A break that leaves the function instead of the loop.
ir_break_to_exit(node, p, st) ==
    IF st.loop_label_stack = <<>> THEN Failed(st) ELSE
    R("ok", Null, <<GotoInstruction(st.funcs[st.cur].exitLabel, p, "break")>>, st)

ir_break_statement(node, p, st) ==
    IF st.loop_label_stack = <<>> THEN Failed(st) ELSE
    R("ok", Null, <<GotoInstruction(st.loop_label_stack[Len(st.loop_label_stack)][2], p, "break")>>, st)

ir_continue_statement(node, p, st) ==
    IF st.loop_label_stack = <<>> THEN Failed(st) ELSE
    R("ok", Null, <<GotoInstruction(st.loop_label_stack[Len(st.loop_label_stack)][1], p, "continue")>>, st)

\* extractDimensions: the literal of every dimension, 0 for an empty one.
extractDimensions(dim_node) ==
    [ok |-> \A i \in 1..Len(dim_node.sons) : dim_node.sons[i].node_type \in {"uint", "empty_dim"},
     dimensions |-> [i \in 1..Len(dim_node.sons) |->
                        IF dim_node.sons[i].node_type = "uint" THEN dim_node.sons[i].integer_val ELSE 0]]

\* isInFormalParams: some ancestor of the node at path p is a formal parameter (list).
isInFormalParams(p) ==
    \E k \in 0..(Len(p) - 1) :
        NodeAt(root, SubSeq(p, 1, k)).node_type \in {"formal_param", "formal_params"}

ir_array_declare(node, p, st) ==
    IF Len(node.sons) # 2 THEN Failed(st) ELSE
    With(extractDimensions(node.sons[2]), LAMBDA dims :
    IF ~dims.ok THEN Failed(st) ELSE
    With(IF st.cur # 0 /\ isInFormalParams(p)
         THEN newVarValue(st, PtrT, node.sons[1].name)
         ELSE newVarValue(st, ArrT(dims.dimensions), node.sons[1].name), LAMBDA made :
    IF IsNull(made.val) THEN Failed(made.st) ELSE
    IF IsNull(findVarValue(made.st, node.sons[1].name)) THEN Failed(made.st) ELSE
    R("ok", made.val, <<>>, made.st)))

\* The loop of ir_declare_statment over the declared items; result starts false.
RECURSIVE DeclareItems(_, _, _, _, _)
DeclareItems(sons, i, p, st, insts) ==
    IF i > Len(sons) THEN R(IF sons = <<>> THEN "fail" ELSE "ok", Null, insts, st) ELSE
    With(CASE sons[i].node_type = "var_decl" -> ir_variable_declare(sons[i], p \o <<i>>, st)
           [] sons[i].node_type = "var_init" -> ir_variable_initialize(sons[i], p \o <<i>>, st)
           [] sons[i].node_type = "array_decl" -> ir_array_declare(sons[i], p \o <<i>>, st)
           [] OTHER -> Failed(st), LAMBDA res :
    IF res.ok # "ok" THEN R(res.ok, Null, insts, res.st)
    ELSE DeclareItems(sons, i + 1, p, res.st, insts \o res.insts))

ir_declare_statment(node, p, st) == DeclareItems(node.sons, 1, p, st, <<>>)

\* dimensions[i] of ir_array_ref; past the end of the vector the read is out
\* of bounds and yields whatever the run finds there.
DimAt(dimensions, i) == IF i <= Len(dimensions) THEN dimensions[i] ELSE input.garbage

\* The loop of ir_array_ref over the index expressions.
RECURSIVE VisitIndexes(_, _, _, _, _, _)
VisitIndexes(sons, i, p, st, indexValues, insts) ==
    IF i > Len(sons) THEN R("ok", Null, insts, st) @@ [indexValues |-> indexValues] ELSE
    With(ir_visit_ast_node(sons[i], p \o <<i>>, st), LAMBDA visited_index :
    IF visited_index.ok # "ok" THEN Stop(visited_index) @@ [indexValues |-> indexValues]
    ELSE VisitIndexes(sons, i + 1, p, visited_index.st,
                      Append(indexValues, visited_index.val), insts \o visited_index.insts))

\* A fold that scales by the extent of the previous dimension.
RECURSIVE LinearOffsetPrev(_, _, _, _, _, _, _)
LinearOffsetPrev(indexValues, dimensions, i, offset, id, insts, p) ==
    IF i > Len(indexValues) THEN [offset |-> offset, insts |-> insts, nextId |-> id] ELSE
    LinearOffsetPrev(indexValues, dimensions, i + 1, V("inst", id + 1, I32, ""), id + 2,
                     insts \o <<BinaryInstruction("mul", id, offset, newConstInt(DimAt(dimensions, i - 1)),
                                                  I32, p, "idx_mul"),
                                BinaryInstruction("add", id + 1, V("inst", id, I32, ""), indexValues[i],
                                                  I32, p, "idx_add")>>,
                     p)

\* The loop of ir_array_ref that folds the indices into one element offset:
\* offset = offset * dimensions[i] + indexValues[i].
RECURSIVE LinearOffset(_, _, _, _, _, _, _)
LinearOffset(indexValues, dimensions, i, offset, id, insts, p) ==
    IF i > Len(indexValues) THEN [offset |-> offset, insts |-> insts, nextId |-> id] ELSE
    LinearOffset(indexValues, dimensions, i + 1, V("inst", id + 1, I32, ""), id + 2,
                 insts \o <<BinaryInstruction("mul", id, offset, newConstInt(DimAt(dimensions, i)),
                                              I32, p, "idx_mul"),
                            BinaryInstruction("add", id + 1, V("inst", id, I32, ""), indexValues[i],
                                              I32, p, "idx_add")>>,
                 p)

\* IntegerType::getTypeInt()->getSize()
ElementSize == 4

\* The address computation of ir_array_ref from an element offset.
ElementAddress(arrayVar, lin, p) ==
    [val |-> V("inst", lin.nextId + 1, PtrT, ""),
     insts |-> lin.insts \o
               <<BinaryInstruction("mul", lin.nextId, lin.offset, newConstInt(ElementSize), I32, p, "size_mul"),
                 BinaryInstruction("add", lin.nextId + 1, arrayVar, V("inst", lin.nextId, I32, ""),
                                   PtrT, p, "addr")>>,
     nextId |-> lin.nextId + 2]

\* The search of ir_array_ref through the current function's parameters for
\* the array parameter of that name and the dimensions it remembers.
ParamDimensions(st, name) ==
    LET hits == IF st.cur = 0 THEN {}
                ELSE {i \in 1..Len(st.funcs[st.cur].params) :
                         /\ st.funcs[st.cur].params[i].val.name = name
                         /\ st.funcs[st.cur].params[i].isArrayParam}
    IN [found |-> hits # {},
        dimensions |-> IF hits = {} THEN <<>>
                       ELSE st.funcs[st.cur].params[CHOOSE i \in hits : \A j \in hits : i <= j].originalDims]

\* A test that takes either operand of an assignment for its target.
IsAssignOperand(p) ==
    /\ p # <<>>
    /\ NodeAt(root, SubSeq(p, 1, Len(p) - 1)).node_type = "assign"

\* parent is an assignment and the node is its first son
IsLValue(p) ==
    /\ p # <<>>
    /\ NodeAt(root, SubSeq(p, 1, Len(p) - 1)).node_type = "assign"
    /\ p[Len(p)] = 1

ir_array_ref(node, p, st) ==
    IF Len(node.sons) # 2 THEN Failed(st) ELSE
    With(findVarValue(st, node.sons[1].name), LAMBDA arrayVar :
    IF IsNull(arrayVar) THEN Failed(st) ELSE
    IF node.sons[2].node_type = "array_dim" /\ node.sons[2].sons = <<>> THEN Failed(st) ELSE
    With(IF node.sons[2].node_type = "array_dim"
         THEN VisitIndexes(node.sons[2].sons, 1, p \o <<2>>, st, <<>>, <<>>)
         ELSE VisitIndexes(node.sons, 2, p, st, <<>>, <<>>), LAMBDA idx :
    IF idx.ok # "ok" THEN Stop(idx) ELSE
    IF ~isArrayType(arrayVar.ty) /\ ~isPointerType(arrayVar.ty) THEN Failed(idx.st) ELSE
    With(ParamDimensions(idx.st, node.sons[1].name), LAMBDA param :
    IF /\ isPointerType(arrayVar.ty)
       /\ ~(param.found /\ Len(idx.indexValues) > 1)
       /\ Len(idx.indexValues) # 1
    THEN Failed(idx.st) ELSE
    With(ElementAddress(arrayVar,
             IF isArrayType(arrayVar.ty) \/ (param.found /\ Len(idx.indexValues) > 1)
             THEN LinearOffset(idx.indexValues,
                               IF isArrayType(arrayVar.ty) THEN arrayVar.ty.dims ELSE param.dimensions,
                               2, idx.indexValues[1], idx.st.nextId, idx.insts, p)
             ELSE [offset |-> idx.indexValues[1], insts |-> idx.insts, nextId |-> idx.st.nextId],
             p), LAMBDA addr :
    IF IsLValue(p) THEN R("ok", addr.val, addr.insts, [idx.st EXCEPT !.nextId = addr.nextId]) ELSE
    \* currentFunc->newMemVariable with no current function: a null dereference
    IF idx.st.cur = 0 THEN Crash(idx.st) ELSE
    With(newMemVariable([idx.st EXCEPT !.nextId = addr.nextId], I32), LAMBDA loadedValue :
    R("ok", loadedValue.val,
      addr.insts \o <<MoveInstruction(loadedValue.val, addr.val, p, "load")>>,
      loadedValue.st))))))

\* The loop of ir_array_dim over its sons.
ir_array_dim(node, p, st) == VisitStatements(node.sons, 1, p, st, <<>>)

ir_empty_dim(node, p, st) == R("ok", Null, <<>>, st)

\* The first loop of ir_function_define: one FormalParam per parameter node.
RECURSIVE CollectFormalParams(_, _, _, _)
CollectFormalParams(sons, i, id, formalParams) ==
    IF i > Len(sons) THEN [ok |-> TRUE, formalParams |-> formalParams] ELSE
    IF sons[i].sons[2].node_type = "array_decl"
    THEN With(extractDimensions(sons[i].sons[2].sons[2]), LAMBDA dims :
         IF ~dims.ok THEN [ok |-> FALSE, formalParams |-> formalParams]
         ELSE CollectFormalParams(sons, i + 1, id + 1,
                  Append(formalParams,
                         FormalParam(id, PtrT, sons[i].sons[2].sons[1].name, TRUE, dims.dimensions))))
    ELSE CollectFormalParams(sons, i + 1, id + 1,
             Append(formalParams, FormalParam(id, sons[i].sons[1].type, sons[i].sons[2].name, FALSE, <<>>)))

\* The loop of ir_function_formal_params: a local per parameter and the Move into it.
RECURSIVE CopyFormalParams(_, _, _, _, _)
CopyFormalParams(sons, i, p, st, insts) ==
    IF i > Len(sons) \/ i > Len(st.funcs[st.cur].params) THEN R("ok", Null, insts, st) ELSE
    IF sons[i].sons[2].node_type = "array_decl" /\ ~extractDimensions(sons[i].sons[2].sons[2]).ok
    THEN Failed(st) ELSE
    With(IF sons[i].sons[2].node_type = "array_decl"
         THEN newVarValue(st, PtrT, sons[i].sons[2].sons[1].name)
         ELSE newVarValue(st, sons[i].sons[1].type, sons[i].sons[2].name), LAMBDA localVar :
    IF IsNull(localVar.val) THEN Failed(localVar.st) ELSE
    CopyFormalParams(sons, i + 1, p, localVar.st,
        Append(insts, MoveInstruction(localVar.val, st.funcs[st.cur].params[i].val, p \o <<i>>, "param"))))

ir_function_formal_params(node, p, st) ==
    IF st.cur = 0 THEN Failed(st) ELSE CopyFormalParams(node.sons, 1, p, st, <<>>)

\* node.sons: the return type, the name, the formal parameters, the body.
\* The exit label is the first id after the FormalParams.
ir_function_define(node, p, st) ==
    IF st.cur # 0 THEN Failed(st) ELSE
    With(CollectFormalParams(node.sons[3].sons, 1, st.nextId, <<>>), LAMBDA collected :
    IF ~collected.ok THEN Failed(st) ELSE
    With(newFunction([st EXCEPT !.nextId = @ + Len(collected.formalParams)],
                     node.sons[2].name, node.sons[1].type, collected.formalParams), LAMBDA newFunc :
    IF newFunc.idx = 0 THEN Failed(newFunc.st) ELSE
    Then(ir_function_formal_params(node.sons[3], p \o <<3>>,
            enterScope([newFunc.st EXCEPT !.cur = newFunc.idx,
                                          !.nextId = @ + 1,
                                          !.funcs[newFunc.idx].code = <<EntryInstruction(p)>>,
                                          !.funcs[newFunc.idx].exitLabel = newFunc.st.nextId])),
        LAMBDA params :
    With(IF isVoidType(node.sons[1].type) THEN [val |-> Null, st |-> params.st]
         ELSE newVarValue(params.st, node.sons[1].type, ""), LAMBDA retValue :
    Then(ir_block(node.sons[4], p \o <<4>>,
                 [retValue.st EXCEPT !.funcs[newFunc.idx].returnValue = retValue.val], FALSE),
        LAMBDA body :
    R("ok", Null, <<>>,
      leaveScope([body.st EXCEPT
          !.cur = 0,
          !.funcs[newFunc.idx].code =
              @ \o params.insts
                \o (IF ~isVoidType(node.sons[1].type) /\ node.sons[2].name = "main"
                    THEN <<MoveInstruction(retValue.val, newConstInt(0), p, "main_init")>>
                    ELSE <<>>)
                \o body.insts
                \o <<LabelInstruction(newFunc.st.nextId, p, "exit_label"),
                     ExitInstruction(retValue.val, p)>>])))))))

\* The loop of ir_compile_unit over the functions and global declarations.
ir_compile_unit(node, p, st) == VisitStatements(node.sons, 1, p, [st EXCEPT !.cur = 0], <<>>)

ir_visit_ast_node(node, p, st) ==
    CASE node.node_type = "uint" -> ir_leaf_node_uint(node, p, st)
      [] node.node_type = "var_id" -> ir_leaf_node_var_id(node, p, st)
      [] node.node_type = "type" -> ir_leaf_node_type(node, p, st)
      [] node.node_type = "sub" -> ir_sub(node, p, st)
      [] node.node_type = "add" -> ir_add(node, p, st)
      [] node.node_type = "mul" -> ir_mul(node, p, st)
      [] node.node_type = "div" -> ir_div(node, p, st)
      [] node.node_type = "mod" -> ir_mod(node, p, st)
      [] node.node_type = "neg" -> ir_neg(node, p, st)
      [] node.node_type = "lt" -> ir_lt(node, p, st)
      [] node.node_type = "le" -> ir_le(node, p, st)
      [] node.node_type = "gt" -> ir_gt(node, p, st)
      [] node.node_type = "ge" -> ir_ge(node, p, st)
      [] node.node_type = "eq" -> ir_eq(node, p, st)
      [] node.node_type = "ne" -> ir_ne(node, p, st)
      [] node.node_type = "if" -> ir_if_statement(node, p, st)
      [] node.node_type = "assign" -> ir_assign(node, p, st)
      [] node.node_type = "return" -> ir_return(node, p, st)
      [] node.node_type = "call" -> ir_function_call(node, p, st)
      [] node.node_type = "func_def" -> ir_function_define(node, p, st)
      [] node.node_type = "formal_params" -> ir_function_formal_params(node, p, st)
      [] node.node_type = "decl_stmt" -> ir_declare_statment(node, p, st)
      [] node.node_type = "var_decl" -> ir_variable_declare(node, p, st)
      [] node.node_type = "var_init" -> ir_variable_initialize(node, p, st)
      [] node.node_type = "array_decl" -> ir_array_declare(node, p, st)
      [] node.node_type = "array_ref" -> ir_array_ref(node, p, st)
      [] node.node_type = "array_dim" -> ir_array_dim(node, p, st)
      [] node.node_type = "empty_dim" -> ir_empty_dim(node, p, st)
      [] node.node_type = "block" -> ir_block(node, p, st, TRUE)
      [] node.node_type = "compile_unit" -> ir_compile_unit(node, p, st)
      [] node.node_type = "while" -> ir_while_statement(node, p, st)
      [] node.node_type = "break" -> ir_break_statement(node, p, st)
      [] node.node_type = "continue" -> ir_continue_statement(node, p, st)
      [] node.node_type = "not" -> ir_logical_not(node, p, st)
      [] node.node_type = "and" -> ir_logical_and(node, p, st)
      [] node.node_type = "or" -> ir_logical_or(node, p, st)
      [] OTHER -> ir_default(node, p, st)

(***************************************************************************)
(* Function::renameIR                                                      *)
(***************************************************************************)
Key(v) == <<v.kind, v.id>>

\* Instruction::hasResultValue
hasResultValue(inst) == ~isVoidType(inst.ty)

\* The instructions renameIR names: the labels and those with a result.
NamedInsts(F) ==
    SelectSeq(F.code, LAMBDA inst : inst.op = "label" \/ hasResultValue(inst))

\* The setIRName calls of renameIR in their order: formal parameters, locals,
\* mem variables, then the instructions; the call at position i passes the
\* prefix and nameIndex = i - 1.
RenameOrder(F) ==
    [i \in 1..Len(F.params) |-> [key |-> Key(F.params[i].val), prefix |-> "%t"]]
    \o [i \in 1..Len(F.varsVector) |-> [key |-> Key(F.varsVector[i]), prefix |-> "%l"]]
    \o [i \in 1..Len(F.memVector) |-> [key |-> Key(F.memVector[i]), prefix |-> "%t"]]
    \o [i \in 1..Len(NamedInsts(F)) |->
           [key |-> Key(AsValue(NamedInsts(F)[i])),
            prefix |-> IF NamedInsts(F)[i].op = "label" THEN ".L" ELSE "%t"]]

\* The same loop with a counter of their own for the labels.
RECURSIVE SetIRNamesPerPrefix(_, _, _)
SetIRNamesPerPrefix(order, i, names) ==
    IF i > Len(order) THEN names ELSE
    SetIRNamesPerPrefix(order, i + 1,
        [k \in DOMAIN names \cup {order[i].key} |->
            IF k # order[i].key THEN names[k]
            ELSE IF order[i].prefix = ".L"
            THEN <<".L", Cardinality({j \in 1..(i - 1) : order[j].prefix = ".L"})>>
            ELSE <<order[i].prefix, i - 1>>])

\* The loop of setIRName calls from position i on: nameIndex is i - 1, and a
\* Value named again takes the later name.
RECURSIVE SetIRNames(_, _, _)
SetIRNames(order, i, names) ==
    IF i > Len(order) THEN names ELSE
    SetIRNames(order, i + 1,
               [k \in DOMAIN names \cup {order[i].key} |->
                   IF k = order[i].key THEN <<order[i].prefix, i - 1>> ELSE names[k]])

\* Function::renameIR: a built-in function is left alone.
renameIR(F) ==
    IF F.builtIn THEN F ELSE [F EXCEPT !.irNames = SetIRNames(RenameOrder(F), 1, <<>>)]

(***************************************************************************)
(* Execution of one translated function.  A run-time value is (base, off): *)
(* base 0 for an integer, the array's id for an address into an array.     *)
(***************************************************************************)
RV(base, off) == [base |-> base, off |-> off]

\* Whether an operand has a value to read, and that value.
Readable(v) ==
    \/ v.kind = "const"
    \/ v.kind \in {"local", "global"} /\ isArrayType(v.ty)
    \/ Key(v) \in DOMAIN env
ValueOf(v) ==
    IF v.kind = "const" THEN RV(0, v.id)
    ELSE IF v.kind \in {"local", "global"} /\ isArrayType(v.ty) THEN RV(v.id, 0)
    ELSE env[Key(v)]

code == module.funcs[fn].code
cur_inst == code[ip]

\* The position of a label in the executed function, 0 when it is not there.
LabelIndex(id) ==
    LET hits == {i \in 1..Len(code) : code[i].op = "label" /\ code[i].id = id}
    IN IF hits = {} THEN 0 ELSE CHOOSE i \in hits : \A j \in hits : i <= j

Executing(ops) ==
    /\ pc = "exec"
    /\ Len(trace) < MaxSteps
    /\ ip <= Len(code)
    /\ cur_inst.op \in ops

Step(next_ip) ==
    /\ trace' = Append(trace, ip)
    /\ ip' = next_ip
    /\ pc' = IF next_ip = 0 THEN "stuck" ELSE "exec"

Bind(key, val) == [k \in DOMAIN env \cup {key} |-> IF k = key THEN val ELSE env[k]]

User == {f \in 1..Len(module.funcs) : ~module.funcs[f].builtIn}

\* sdiv and the remainder computed from it: the quotient truncates towards zero.
SDiv(a, b) ==
    LET q == (IF a < 0 THEN -a ELSE a) \div (IF b < 0 THEN -b ELSE b)
    IN IF (a < 0) = (b < 0) THEN q ELSE -q
SRem(a, b) == a - SDiv(a, b) * b

\* The values of the checked instances stay far inside the 32-bit range, so
\* the operations are the mathematical ones.
Arith(op, a, b) ==
    CASE op = "add" -> a + b
      [] op = "sub" -> a - b
      [] op = "mul" -> a * b
      [] op = "div" -> SDiv(a, b)
      [] op = "mod" -> SRem(a, b)

Compare(op, a, b) ==
    CASE op = "cmp_eq" -> a = b
      [] op = "cmp_ne" -> a # b
      [] op = "cmp_lt" -> a < b
      [] op = "cmp_le" -> a <= b
      [] op = "cmp_gt" -> a > b
      [] op = "cmp_ge" -> a >= b

(***************************************************************************)
(* The instruction selector's handlers for a Move and for a call.  A line  *)
(* of assembly is (op, rd, rs, var, regs): the registers written and read, *)
(* the Value loaded or stored, and the registers the allocator holds when  *)
(* the line is emitted.                                                    *)
(***************************************************************************)
Registers == 0..12
ArgRegisters == {0, 1, 2, 3}
NoVar == <<"", 0>>

\* PlatformArm32::intRegVal[k]: the integer register variable of r<k>.
intRegVal(k) == V("reg", k, I32, "")

\* Value::getRegId: -1 for a Value that lives in memory.  Kind "reg" is a
\* Value whose regId is set: a RegVariable, or a FormalParam or an
\* ArrayFormalParamLocalVariable after setRegId.
getRegId(v) == IF v.kind = "reg" THEN v.id ELSE -1

\* SimpleRegisterAllocator::Allocate without a register asked for.
Allocate(regs) == CHOOSE r \in Registers : r \notin regs /\ \A q \in 0..(r - 1) : q \in regs

ILoc(op, rd, rs, var, regs) == [op |-> op, rd |-> rd, rs |-> rs, var |-> var, regs |-> regs]

\* The branch translate_assign takes for a Move.
MoveKind(dst, src) ==
    IF isPointerType(dst.ty) /\ ~isPointerType(src.ty) THEN "str"
    ELSE IF ~isPointerType(dst.ty) /\ isPointerType(src.ty) /\ getRegId(src) = -1 THEN "ldr"
    ELSE "copy"

\* InstSelectorArm32::translate_assign of Move(dst, src) with regs
\* allocated on entry; every register it allocates it frees again.
translate_assign(dst, src, regs) ==
    IF MoveKind(dst, src) = "str"
    THEN With(IF getRegId(dst) # -1 THEN getRegId(dst) ELSE Allocate(regs), LAMBDA addr_reg :
         With(IF getRegId(dst) # -1 THEN regs ELSE regs \cup {addr_reg}, LAMBDA regs1 :
         With(IF getRegId(src) # -1 THEN getRegId(src) ELSE Allocate(regs1), LAMBDA value_reg :
         With(IF getRegId(src) # -1 THEN regs1 ELSE regs1 \cup {value_reg}, LAMBDA regs2 :
         (IF getRegId(dst) # -1 THEN <<>> ELSE <<ILoc("load_var", addr_reg, -1, Key(dst), regs1)>>)
         \o (IF getRegId(src) # -1 THEN <<>> ELSE <<ILoc("load_var", value_reg, -1, Key(src), regs2)>>)
         \o <<ILoc("str", addr_reg, value_reg, NoVar, regs2)>>))))
    ELSE IF MoveKind(dst, src) = "ldr"
    THEN With(Allocate(regs), LAMBDA addr_reg :
         With(regs \cup {addr_reg}, LAMBDA regs1 :
         With(IF getRegId(dst) # -1 THEN getRegId(dst) ELSE Allocate(regs1), LAMBDA load_reg :
         With(IF getRegId(dst) # -1 THEN regs1 ELSE regs1 \cup {load_reg}, LAMBDA regs2 :
         <<ILoc("load_var", addr_reg, -1, Key(src), regs1),
           ILoc("ldr", load_reg, addr_reg, NoVar, regs2)>>
         \o (IF getRegId(dst) # -1 THEN <<>>
             ELSE <<ILoc("store_var", -1, load_reg, Key(dst), regs2)>>)))))
    ELSE IF getRegId(src) # -1
    THEN <<ILoc("store_var", -1, getRegId(src), Key(dst), regs)>>
    ELSE IF getRegId(dst) # -1
    THEN <<ILoc("load_var", getRegId(dst), -1, Key(src), regs)>>
    ELSE With(Allocate(regs), LAMBDA temp_regno :
         <<ILoc("load_var", temp_regno, -1, Key(src), regs \cup {temp_regno}),
           ILoc("store_var", -1, temp_regno, Key(dst), regs \cup {temp_regno})>>)

\* Whether the Move has a value to move when it runs, and that value: what
\* the source holds, or for a load through a pointer what it points to.
Movable(dst, src) ==
    /\ Readable(src)
    /\ MoveKind(dst, src) = "ldr" => <<ValueOf(src).base, ValueOf(src).off>> \in DOMAIN mem
Moved(dst, src) ==
    IF MoveKind(dst, src) = "ldr" THEN mem[<<ValueOf(src).base, ValueOf(src).off>>]
    ELSE ValueOf(src)

\* The first loop of translate_call: operand k from the fifth on is moved to
\* a new MemVariable of the operand's type at [sp, #esp].
RECURSIVE StackArguments(_, _, _, _)
StackArguments(st, ops, k, insts) ==
    IF k > Len(ops) THEN [st |-> st, insts |-> insts, slots |-> <<>>] ELSE
    With(newMemVariable(st, ops[k].ty), LAMBDA newVal :
    With(StackArguments(newVal.st, ops, k + 1,
                        insts \o translate_assign(newVal.val, ops[k], ArgRegisters)), LAMBDA rest :
    [rest EXCEPT !.slots = <<newVal.val>> \o @]))

\* The second loop of translate_call: operand k of the first four is moved
\* to r<k>.
RECURSIVE RegisterArguments(_, _)
RegisterArguments(ops, k) ==
    IF k > Len(ops) \/ k > 4 THEN <<>>
    ELSE translate_assign(intRegVal(k - 1), ops[k], ArgRegisters) \o RegisterArguments(ops, k + 1)

\* Where translate_call moves operand k: r<k> or its stack slot.
ArgumentTarget(slots, k) == IF k <= 4 THEN intRegVal(k - 1) ELSE slots[k - 4]

\* The assembly of translate_call after the stack arguments: the register
\* arguments, bl, the registers given back, then the dst taken from r0.
CallAssembly(inst) ==
    RegisterArguments(inst.ops, 1)
    \o <<ILoc("bl", -1, -1, NoVar, IF Len(inst.ops) # 0 THEN ArgRegisters ELSE {})>>
    \o (IF hasResultValue(inst) THEN translate_assign(AsValue(inst), intRegVal(0), {}) ELSE <<>>)

NotLowered == [insts |-> <<>>, args |-> <<>>]

\* The opcodes the constructor of InstSelectorArm32 registers a handler for.
translator_handlers ==
    {"entry", "exit", "label", "goto", "assign", "bc", "call", "arg"} \cup ArithOps \cup CmpOps

(***************************************************************************)
(* Actions                                                                 *)
(***************************************************************************)
\* IRGenerator::run over the whole compile unit.  A translation that ends
\* the process does so through the failed assertion or, where assertions
\* are compiled out, through the null dereference behind it.
run ==
    /\ pc = "translate"
    /\ LET r == ir_visit_ast_node(root, <<>>, module) IN
       /\ module' = r.st
       /\ \/ r.ok = "ok" /\ result' = "ok" /\ pc' = "translated"
          \/ r.ok = "fail" /\ result' = "fail" /\ pc' = "failed"
          \/ r.ok = "crash" /\ result' \in {"abort", "segv"} /\ pc' = "failed"
    /\ UNCHANGED <<root, input, fn, ip, env, mem, trace, lowered>>

\* Module::renameIR: every function of the translated Module is renamed.
rename_ir ==
    /\ pc = "translated"
    /\ module' = [module EXCEPT !.funcs = [f \in 1..Len(module.funcs) |-> renameIR(module.funcs[f])]]
    /\ pc' = "renamed"
    /\ UNCHANGED <<root, result, input, fn, ip, env, mem, trace, lowered>>

\* The entry into one translated function: integer parameters hold the
\* argument, an array parameter holds the address of the caller's array.
call_function ==
    /\ pc = "renamed"
    /\ \E f \in User :
         /\ fn' = f
         /\ env' = [k \in {Key(module.funcs[f].params[i].val) : i \in 1..Len(module.funcs[f].params)} |->
                       IF k \in {Key(module.funcs[f].params[i].val) :
                                    i \in {j \in 1..Len(module.funcs[f].params) :
                                              module.funcs[f].params[j].isArrayParam}}
                       THEN RV(k[2], 0) ELSE RV(0, input.a)]
    /\ ip' = 1
    /\ pc' = "exec"
    /\ UNCHANGED <<root, module, result, input, mem, trace, lowered>>

exec_entry ==
    /\ Executing({"entry"})
    /\ Step(ip + 1)
    /\ UNCHANGED <<root, module, result, input, fn, env, mem, lowered>>

exec_label ==
    /\ Executing({"label"})
    /\ Step(ip + 1)
    /\ UNCHANGED <<root, module, result, input, fn, env, mem, lowered>>

exec_goto ==
    /\ Executing({"goto"})
    /\ Step(LabelIndex(cur_inst.t))
    /\ UNCHANGED <<root, module, result, input, fn, env, mem, lowered>>

\* The opcode of the instruction an operand is the result of, "" for an
\* operand that is not the result of an instruction of the function.
OperandOp(v) ==
    LET hits == {i \in 1..Len(code) : code[i].id = v.id /\ code[i].op # "label"}
    IN IF v.kind # "inst" \/ hits = {} THEN "" ELSE code[CHOOSE i \in hits : TRUE].op

\* b<cond> to the true label, b to the false label, <cond> read off the
\* comparison the operand is.  An operand that is no comparison fails the
\* handler's assertions; where they are compiled out the operand is read as
\* a BinaryInstruction it is not, and any of the handler's ends can follow.
exec_branch_conditional ==
    /\ Executing({"bc"})
    /\ LET cond == cur_inst.ops[1] IN
       IF OperandOp(cond) \notin CmpOps
       THEN \E next_ip \in {0, ip + 1, LabelIndex(cur_inst.t), LabelIndex(cur_inst.f)} : Step(next_ip)
       ELSE IF ~Readable(cond) THEN Step(0)
       ELSE Step(LabelIndex(IF ValueOf(cond).off # 0 THEN cur_inst.t ELSE cur_inst.f))
    /\ UNCHANGED <<root, module, result, input, fn, env, mem, lowered>>

exec_two_operator ==
    /\ Executing(ArithOps)
    /\ LET l == cur_inst.ops[1]
           r == cur_inst.ops[2]
           defined == /\ Readable(l) /\ Readable(r)
                      /\ ValueOf(r).base = 0
                      /\ ValueOf(l).base # 0 => cur_inst.op = "add" /\ isPointerType(cur_inst.ty)
                      /\ cur_inst.op \in {"div", "mod"} => ValueOf(r).off # 0
       IN IF ~defined THEN Step(0) /\ env' = env
          ELSE /\ Step(ip + 1)
               /\ env' = Bind(Key(AsValue(cur_inst)),
                              IF ValueOf(l).base # 0
                              THEN RV(ValueOf(l).base, ValueOf(l).off + ValueOf(r).off)
                              ELSE RV(0, Arith(cur_inst.op, ValueOf(l).off, ValueOf(r).off)))
    /\ UNCHANGED <<root, module, result, input, fn, mem, lowered>>

exec_comparison ==
    /\ Executing(CmpOps)
    /\ LET l == cur_inst.ops[1]
           r == cur_inst.ops[2]
           defined == Readable(l) /\ Readable(r) /\ ValueOf(l).base = 0 /\ ValueOf(r).base = 0
       IN IF ~defined THEN Step(0) /\ env' = env
          ELSE /\ Step(ip + 1)
               /\ env' = Bind(Key(AsValue(cur_inst)),
                              RV(0, IF Compare(cur_inst.op, ValueOf(l).off, ValueOf(r).off) THEN 1 ELSE 0))
    /\ UNCHANGED <<root, module, result, input, fn, mem, lowered>>

\* A Move stores through a pointer destination, loads through a pointer
\* source that lives in memory, and copies otherwise.
exec_assign ==
    /\ Executing({"assign"})
    /\ LET dst == cur_inst.ops[1]
           src == cur_inst.ops[2]
       IN /\ lowered' = [insts |-> IF IsNull(dst) THEN <<>> ELSE translate_assign(dst, src, {}),
                         args |-> <<>>]
          /\ IF IsNull(dst) \/ ~Movable(dst, src) THEN Step(0) /\ UNCHANGED <<env, mem>>
             ELSE IF MoveKind(dst, src) = "str"
             THEN IF ~Readable(dst) THEN Step(0) /\ UNCHANGED <<env, mem>>
                  ELSE /\ Step(ip + 1)
                       /\ mem' = [k \in DOMAIN mem \cup {<<ValueOf(dst).base, ValueOf(dst).off>>} |->
                                     IF k = <<ValueOf(dst).base, ValueOf(dst).off>> THEN ValueOf(src) ELSE mem[k]]
                       /\ env' = env
             ELSE Step(ip + 1) /\ env' = Bind(Key(dst), Moved(dst, src)) /\ mem' = mem
    /\ UNCHANGED <<root, module, result, input, fn>>

\* A call leaves the executed function; what it returns is an input of the
\* run.  The arguments are moved to their stack slots and registers first.
exec_call ==
    /\ Executing({"call"})
    /\ LET stack == StackArguments([module EXCEPT !.cur = fn], cur_inst.ops, 5, <<>>)
           target(k) == ArgumentTarget(stack.slots, k)
           passable == \A k \in 1..Len(cur_inst.ops) : Movable(target(k), cur_inst.ops[k])
       IN /\ module' = [stack.st EXCEPT !.cur = module.cur]
          /\ lowered' = [insts |-> stack.insts \o CallAssembly(cur_inst),
                         args |-> IF passable
                                  THEN [k \in 1..Len(cur_inst.ops) |-> Moved(target(k), cur_inst.ops[k])]
                                  ELSE <<>>]
          /\ IF ~passable
             THEN Step(0) /\ env' = env
             ELSE /\ Step(ip + 1)
                  /\ env' = IF isVoidType(cur_inst.ty) THEN env
                            ELSE Bind(Key(AsValue(cur_inst)), RV(0, input.ret))
    /\ UNCHANGED <<root, result, input, fn, mem>>

exec_exit ==
    /\ Executing({"exit"})
    /\ trace' = Append(trace, ip)
    /\ pc' = "done"
    /\ UNCHANGED <<root, module, result, input, fn, ip, env, mem, lowered>>

\* One round of the loop of InstSelectorArm32::run: a dead instruction is
\* passed over, translate looks the opcode up, returns when there is no
\* handler for it and calls the handler otherwise.  run returns nothing.
translate ==
    /\ pc = "select"
    /\ ip <= Len(code)
    /\ trace' = IF ~cur_inst.dead /\ cur_inst.op \in translator_handlers THEN Append(trace, ip) ELSE trace
    /\ lowered' = IF ~cur_inst.dead /\ cur_inst.op = "assign"
                  THEN [insts |-> translate_assign(cur_inst.ops[1], cur_inst.ops[2], {}), args |-> <<>>]
                  ELSE lowered
    /\ ip' = ip + 1
    /\ pc' = IF ip = Len(code) THEN "selected" ELSE "select"
    /\ UNCHANGED <<root, module, result, input, fn, env, mem>>

(***************************************************************************)
(* The compile units of the checked instances                              *)
(***************************************************************************)
GetInt == Call("getint", <<>>)
X == Id("x")
A == Id("a")

\* int f(int a) { int x = 0; <s>; return x; }
IntFunc(s) == Unit(<<FuncDef(I32, "f", <<Param("a")>>,
                            <<Decl(<<VarInit("x", Lit(0))>>), s, Ret(X)>>)>>)

\* void f(int a) { int x = 0; <s> }
VoidFunc(s) == Unit(<<FuncDef(VoidT, "f", <<Param("a")>>,
                             <<Decl(<<VarInit("x", Lit(0))>>), s>>)>>)

\* Expressions nested to a depth over the parameter a and a call with a side
\* effect, under !, &&, ||, a comparison and unary minus.
RECURSIVE Exprs(_)
Exprs(d) ==
    IF d = 0 THEN {A, GetInt}
    ELSE LET E == Exprs(d - 1) IN
         E \cup {Not(e) : e \in E}
           \cup {Bin(op, e, GetInt) : op \in {"and", "or"}, e \in E}
           \cup {Bin(op, A, e) : op \in {"and", "or"}, e \in E}
           \cup {Bin("lt", e, Lit(1)) : e \in E}
           \cup {Neg(e) : e \in E}

\* The positions an expression can take: condition of if, if-else and while,
\* right side of an assignment, initializer, return value, call argument.
InContext(e) ==
    { If(e, Assign(X, Lit(1))),
      IfElse(e, Assign(X, Lit(1)), Assign(X, Lit(2))),
      While(e, Block(<<Assign(X, Lit(1)), Break>>)),
      Assign(X, e),
      Decl(<<VarInit("y", e)>>),
      Ret(e),
      Call("putint", <<e>>) }

ExprPrograms == {IntFunc(s) : s \in UNION {InContext(e) : e \in Exprs(MaxDepth)}}

\* Statements nested to a depth under if, if-else, while and blocks.
Cond == Bin("lt", A, Lit(1))
CoreStmts == {Assign(X, Lit(1)), Ret(X), RetVoid, Break, Continue}

RECURSIVE Stmts(_)
Stmts(n) ==
    IF n = 0 THEN CoreStmts
    ELSE LET S == Stmts(n - 1) IN
         S \cup {If(Cond, s) : s \in S}
           \cup {IfElse(Cond, Assign(X, Lit(2)), s) : s \in S}
           \cup {While(Cond, s) : s \in S}
           \cup {Block(<<s, Assign(X, Lit(2))>>) : s \in S}

StmtPrograms == {IntFunc(s) : s \in Stmts(MaxNest)} \cup {VoidFunc(s) : s \in Stmts(MaxNest)}

\* int f(int a) { int arr[d1]..[dk]; arr[i1]..[ik] = a; return arr[i1]..[ik]; }
ArrFunc(d, i) ==
    Unit(<<FuncDef(I32, "f", <<Param("a")>>,
                   <<Decl(<<ArrayDecl("arr", [j \in 1..Len(d) |-> Lit(d[j])])>>),
                     Assign(ArrayRef("arr", i), A),
                     Ret(ArrayRef("arr", i))>>)>>)

ArrayPrograms ==
    UNION {{ArrFunc(d, i) : d \in [1..k -> {2, 3}], i \in [1..k -> {Lit(0), Lit(1), A}]} : k \in 1..MaxDims}

\* A name u without a declaration, in every position a name can take.
U == Id("u")
UndefinedUses ==
    { Assign(X, Bin("add", U, Lit(1))), Assign(X, Bin("mul", Lit(2), U)),
      Assign(X, Bin("lt", U, Lit(1))), Assign(X, Neg(U)), Assign(X, Not(U)),
      Assign(U, Lit(1)), Assign(X, U), Ret(U), Call("putint", <<U>>),
      Decl(<<VarInit("y", U)>>),
      If(U, Assign(X, Lit(1))), While(Bin("lt", U, Lit(1)), Break),
      If(A, Assign(X, U)),
      Block(<<Block(<<Decl(<<VarDecl("u")>>), Assign(U, Lit(1))>>), Assign(X, U)>>) }

\* Declarations of a name the scope already has, and of a name an outer scope has.
SameScope ==
    { Decl(<<VarDecl("x")>>), Decl(<<VarInit("x", Lit(1))>>), Decl(<<VarDecl("a")>>),
      Decl(<<VarDecl("y"), VarDecl("y")>>), Decl(<<VarDecl("y"), VarInit("y", Lit(1))>>),
      Block(<<Decl(<<VarDecl("y")>>), Decl(<<VarDecl("y")>>), Assign(Id("y"), Lit(1))>>),
      If(A, Block(<<Decl(<<VarInit("y", Lit(1))>>), Decl(<<VarInit("y", Lit(2))>>)>>)) }
InnerScope ==
    { Block(<<Decl(<<VarDecl("x")>>), Assign(X, Lit(5))>>),
      Block(<<Decl(<<VarInit("x", Lit(5))>>), Assign(X, Lit(6))>>),
      While(Cond, Block(<<Decl(<<VarInit("a", Lit(5))>>), Assign(X, A), Break>>)) }

\* int h(int p) { return p; } before f, and calls whose argument count is off.
WithCallee(s) ==
    Unit(<<FuncDef(I32, "h", <<Param("p")>>, <<Ret(Id("p"))>>),
           FuncDef(I32, "f", <<Param("a")>>, <<Decl(<<VarInit("x", Lit(0))>>), s, Ret(X)>>)>>)
BadCalls ==
    { Call("h", <<>>), Call("h", <<A, Lit(1)>>), Call("getint", <<A>>), Call("putint", <<>>) }
GoodCalls == { Call("h", <<A>>), Call("h", <<Call("h", <<GetInt>>)>>) }
CallContexts(c) == InContext(c) \cup {c, If(A, c), Assign(X, Bin("add", c, Lit(1)))}
BadCallPrograms == {WithCallee(s) : s \in UNION {CallContexts(c) : c \in BadCalls}}
CallPrograms == BadCallPrograms \cup {WithCallee(s) : s \in UNION {CallContexts(c) : c \in GoodCalls}}

\* Conditions whose translation meets an error: an operand without a value
\* (an undeclared name, a call with a wrong argument count, a && as the
\* operand of a comparison) or a value that is neither Int1 nor Int32.
BadConditions ==
    { U, Bin("lt", U, Lit(1)), Bin("lt", A, U), Not(U), Bin("and", A, U),
      Call("getint", <<A>>), Bin("lt", Bin("and", A, A), Lit(1)),
      Call("putint", <<A>>) }
BadConditionPrograms ==
    {IntFunc(s) : s \in UNION {{If(c, Assign(X, Lit(1))),
                                IfElse(c, Assign(X, Lit(1)), Assign(X, Lit(2))),
                                While(c, Block(<<Assign(X, Lit(1)), Break>>))} : c \in BadConditions}}

\* Global declarations before a function: without an initializer, with a
\* literal one, with one that reads another global or calls a function.
PlainFunc == FuncDef(I32, "f", <<Param("a")>>, <<Decl(<<VarInit("x", Lit(0))>>), Ret(X)>>)
G == Id("g")
H == Id("h")
ConstantGlobals ==
    { <<Decl(<<VarDecl("g")>>)>>,
      <<Decl(<<VarInit("g", Lit(0))>>)>>,
      <<Decl(<<VarInit("g", Lit(5))>>)>>,
      <<Decl(<<VarDecl("h"), VarInit("g", Lit(3))>>)>>,
      <<Decl(<<ArrayDecl("h", <<Lit(2)>>)>>), Decl(<<VarInit("g", Lit(1))>>)>> }
NonConstantGlobals ==
    { <<Decl(<<VarInit("h", Lit(1))>>), Decl(<<VarInit("g", H)>>)>>,
      <<Decl(<<VarDecl("h")>>), Decl(<<VarInit("g", Bin("add", H, Lit(1)))>>)>>,
      <<Decl(<<VarInit("h", Lit(1))>>), Decl(<<VarInit("g", Neg(H))>>)>>,
      <<Decl(<<VarInit("g", GetInt)>>)>>,
      <<Decl(<<VarInit("g", U)>>)>> }
NonConstantGlobalPrograms == {Unit(ds \o <<PlainFunc>>) : ds \in NonConstantGlobals}
GlobalPrograms == {Unit(ds \o <<PlainFunc>>) : ds \in ConstantGlobals} \cup NonConstantGlobalPrograms

\* Array declarations, local and global, with a dimension that is not a
\* positive literal: a literal 0, an expression, an absent dimension.
BadDimensions ==
    { <<Lit(0)>>, <<Lit(2), Lit(0)>>, <<A>>, <<Lit(2), Bin("add", Lit(1), Lit(1))>>, <<EmptyDim>> }
BadArrayPrograms ==
    {IntFunc(Decl(<<ArrayDecl("arr", d)>>)) : d \in BadDimensions}
    \cup {Unit(<<Decl(<<ArrayDecl("arr", d)>>), PlainFunc>>) : d \in BadDimensions}

\* An array handed to a callee, as the first argument (r0) or as the fifth
\* (on the stack): the caller's own array parameter, or a local array.
\*   int g(int b[]) { return b[0]; }
\*   int h(int p, int q, int r, int s, int b[]) { return b[0]; }
\*   int f(int a[]) { a[0] = 1; return <call>; }
\*   int f(int a)   { int arr[2]; arr[0] = a; return <call>; }
B0 == ArrayRef("b", <<Lit(0)>>)
ArrayCallees ==
    << FuncDef(I32, "g", <<ArrParam("b", <<EmptyDim>>)>>, <<Ret(B0)>>),
       FuncDef(I32, "h", <<Param("p"), Param("q"), Param("r"), Param("s"),
                           ArrParam("b", <<EmptyDim>>)>>, <<Ret(B0)>>) >>
ArrayCalls(arr) ==
    { Call("g", <<arr>>), Call("h", <<Lit(0), Lit(1), A, Lit(3), arr>>) }
ForwardedArrayPrograms ==
    { Unit(ArrayCallees \o <<FuncDef(I32, "f", <<ArrParam("a", dims)>>,
                                     <<Assign(ArrayRef("a", [i \in 1..Len(dims) |-> Lit(0)]), Lit(1)), Ret(c)>>)>>)
        : c \in ArrayCalls(A), dims \in {<<EmptyDim>>, <<EmptyDim, Lit(2)>>} }
LocalArrayPrograms ==
    { Unit(ArrayCallees \o <<FuncDef(I32, "f", <<Param("a")>>,
                                     <<Decl(<<ArrayDecl("arr", <<Lit(2)>>)>>),
                                       Assign(ArrayRef("arr", <<Lit(0)>>), A), Ret(c)>>)>>)
        : c \in ArrayCalls(Id("arr")) }
\* An array element read as a right-hand side, as the index of another
\* element, as a condition and as a call argument.
\*   int arr[2]; arr[0] = 0; arr[1] = a; arr[arr[0]] = arr[1];
\*   if (arr[a]) x = arr[0]; putint(arr[0]);
Arr(i) == ArrayRef("arr", <<i>>)
ArrayPositionProgram ==
    IntFunc(Block(<<Decl(<<ArrayDecl("arr", <<Lit(2)>>)>>),
                    Assign(Arr(Lit(0)), Lit(0)), Assign(Arr(Lit(1)), A),
                    Assign(Arr(Arr(Lit(0))), Arr(Lit(1))),
                    If(Arr(A), Assign(X, Arr(Lit(0)))),
                    Call("putint", <<Arr(Lit(0))>>)>>))
ArrayArgumentPrograms == ForwardedArrayPrograms \cup LocalArrayPrograms

Corpus ==
    {IntFunc(s) : s \in UndefinedUses \cup SameScope \cup InnerScope}
    \cup { IntFunc(Assign(X, Bin("sub", Neg(Cond), Bin("mod", Bin("div", A, Lit(2)), Lit(2))))),
           IntFunc(While(Bin("and", Cond, Not(Bin("or", Bin("lt", Neg(Cond), Lit(1)), GetInt))),
                         Block(<<IfElse(Bin("or", Neg(Cond), A), Break, Continue), Assign(X, Lit(1))>>))),
           Unit(<<Decl(<<VarDecl("g")>>), Decl(<<VarDecl("g")>>), IntFunc(Assign(X, Lit(1))).sons[1]>>),
           IntFunc(Block(<<Decl(<<VarInit("y", Cond)>>), If(Id("y"), Assign(X, Lit(1)))>>)),
           IntFunc(While(Cond, Block(<<While(Bin("and", Cond, A), Continue), Break>>))),
           ArrayPositionProgram,
           IntFunc(While(Cond, While(Cond, Block(<<Break, Decl(<<VarDecl("y"), VarInit("y", Lit(1))>>)>>)))),
           ArrFunc(<<2>>, <<Lit(0), Lit(1)>>),
           Unit(<<FuncDef(VoidT, "f", <<>>, <<>>)>>),
           Unit(<<FuncDef(I32, "main", <<>>, <<>>)>>) }

Programs ==
    ExprPrograms \cup StmtPrograms \cup ArrayPrograms \cup CallPrograms \cup BadConditionPrograms
    \cup GlobalPrograms \cup BadArrayPrograms \cup ArrayArgumentPrograms \cup Corpus

Inputs == [a : {0, 1}, ret : {0, 1}, garbage : {0}]

InitWith(programs) ==
    /\ root \in programs
    /\ input \in Inputs
    /\ pc = "translate"
    /\ module = NewModule
    /\ result = "none"
    /\ fn = 0
    /\ ip = 0
    /\ env = <<>>
    /\ mem = <<>>
    /\ trace = <<>>
    /\ lowered = NotLowered

Init == InitWith(Programs)

Next ==
    \/ run
    \/ rename_ir
    \/ call_function
    \/ exec_entry
    \/ exec_label
    \/ exec_goto
    \/ exec_branch_conditional
    \/ exec_two_operator
    \/ exec_comparison
    \/ exec_assign
    \/ exec_call
    \/ exec_exit

Spec == Init /\ [][Next]_vars

\* One Move handed to the selector, over every pairing of a destination and
\* a source that is pointer-typed or not and lives in a register or in
\* memory.  A pointer points into array 9, whose first cell is written.
MoveDestinations ==
    {V(kind, 1, ty, "") : kind \in {"reg", "local", "mem", "inst"}, ty \in {I32, I1, PtrT}}
MoveSources ==
    {V(kind, 2, ty, "") : kind \in {"reg", "local", "mem", "inst", "formal"}, ty \in {I32, I1, PtrT}}
MoveFunction(dst, src) ==
    [Function("f", VoidT, <<>>, FALSE) EXCEPT !.code = <<MoveInstruction(dst, src, <<>>, "move")>>]

InitMove ==
    /\ root = Unit(<<>>)
    /\ input \in Inputs
    /\ pc = "exec"
    /\ \E dst \in MoveDestinations, src \in MoveSources :
         /\ module = [NewModule EXCEPT !.funcs = Append(@, MoveFunction(dst, src))]
         /\ env = [k \in {Key(dst), Key(src)} |->
                      IF k = Key(dst)
                      THEN (IF isPointerType(dst.ty) THEN RV(9, 4) ELSE RV(0, 0))
                      ELSE (IF isPointerType(src.ty) THEN RV(9, 0) ELSE RV(0, input.a))]
    /\ result = "ok"
    /\ fn = Len(Builtins) + 1
    /\ ip = 1
    /\ mem = [k \in {<<9, 0>>} |-> RV(0, 1)]
    /\ trace = <<>>
    /\ lowered = NotLowered

NextMove == exec_assign

MoveSpec == InitMove /\ [][NextMove]_vars

\* An instruction list handed to the selector: the instructions without a
\* call, one of them possibly dead, and one of an opcode of IRInstOperator
\* that no handler is registered for.
SelectableInsts ==
    LET tmp == V("local", 1, I32, "")
        plain == { LabelInstruction(2, <<>>, "label"), GotoInstruction(2, <<>>, "goto"),
                   MoveInstruction(tmp, newConstInt(1), <<>>, "move"),
                   BinaryInstruction("add", 3, tmp, newConstInt(1), I32, <<>>, "add"),
                   Inst("new_feature", 4, I32, <<tmp>>, 0, 0, <<>>, "new") }
    IN plain \cup {[inst EXCEPT !.dead = TRUE] : inst \in plain}
MaxInsts == 2
SelectableCode ==
    UNION {[1..n -> SelectableInsts] : n \in 1..MaxInsts}

InitSelect ==
    /\ root = Unit(<<>>)
    /\ input \in Inputs
    /\ pc = "select"
    /\ \E body \in SelectableCode :
         module = [NewModule EXCEPT !.funcs =
                      Append(@, [Function("f", VoidT, <<>>, FALSE) EXCEPT
                                    !.code = <<EntryInstruction(<<>>)>> \o body \o <<ExitInstruction(Null, <<>>)>>])]
    /\ result = "none"
    /\ fn = Len(Builtins) + 1
    /\ ip = 1
    /\ env = <<>>
    /\ mem = <<>>
    /\ trace = <<>>
    /\ lowered = NotLowered

NextSelect == translate

SelectSpec == InitSelect /\ [][NextSelect]_vars

(***************************************************************************)
(* Vocabulary of the properties                                            *)
(***************************************************************************)
\* The paths of all nodes below a node.
RECURSIVE Paths(_)
Paths(node) ==
    {<<>>} \cup UNION {{<<i>> \o q : q \in Paths(node.sons[i])} : i \in 1..Len(node.sons)}

IsPrefix(p, q) == Len(p) <= Len(q) /\ SubSeq(q, 1, Len(p)) = p

\* The value MiniC gives an expression of the checked instances: the only
\* variable they read is the parameter a, the only call they evaluate getint.
RECURSIVE Eval(_)
Eval(e) ==
    CASE e.node_type = "uint" -> e.integer_val
      [] e.node_type = "var_id" -> input.a
      [] e.node_type = "call" -> input.ret
      [] e.node_type = "neg" -> 0 - Eval(e.sons[1])
      [] e.node_type = "not" -> IF Eval(e.sons[1]) = 0 THEN 1 ELSE 0
      [] e.node_type = "lt" -> IF Eval(e.sons[1]) < Eval(e.sons[2]) THEN 1 ELSE 0
      [] e.node_type = "and" -> IF Eval(e.sons[1]) # 0 /\ Eval(e.sons[2]) # 0 THEN 1 ELSE 0
      [] e.node_type = "or" -> IF Eval(e.sons[1]) # 0 \/ Eval(e.sons[2]) # 0 THEN 1 ELSE 0

CodeOf(f) == module.funcs[f].code

\* The labels an instruction can transfer control to.
Targets(inst) ==
    IF inst.op = "goto" THEN {inst.t} ELSE IF inst.op = "bc" THEN {inst.t, inst.f} ELSE {}

\* The instructions, as (function, index), that the handler of the node at p created.
EmittedBy(p) == {fi \in UNION {{<<f, i>> : i \in 1..Len(CodeOf(f))} : f \in User} : CodeOf(fi[1])[fi[2]].by = p}

\* The bodies of the while statements around the node at p, innermost last.
EnclosingWhiles(p) ==
    {k \in 0..(Len(p) - 1) : NodeAt(root, SubSeq(p, 1, k)).node_type = "while" /\ p[k + 1] = 2}

Innermost(p) == SubSeq(p, 1, CHOOSE k \in EnclosingWhiles(p) : \A m \in EnclosingWhiles(p) : m <= k)

\* The id of the label with a role that the statement at path w emitted, 0 when none.
LabelOf(w, role) ==
    LET hits == {fi \in EmittedBy(w) : CodeOf(fi[1])[fi[2]].op = "label" /\ CodeOf(fi[1])[fi[2]].role = role}
    IN IF hits = {} THEN 0 ELSE CodeOf((CHOOSE fi \in hits : TRUE)[1])[(CHOOSE fi \in hits : TRUE)[2]].id

\* The dimensions the program declares for an array.
DeclaredDims(name) ==
    LET q == CHOOSE q \in Paths(root) :
                 NodeAt(root, q).node_type = "array_decl" /\ NodeAt(root, q).sons[1].name = name
    IN [j \in 1..Len(NodeAt(root, q).sons[2].sons) |-> NodeAt(root, q).sons[2].sons[j].integer_val]

\* ((..((i1 * d2) + i2) * d3 + ..) + ik
RECURSIVE Horner(_, _, _, _)
Horner(idx, dims, i, acc) ==
    IF i > Len(idx) THEN acc ELSE Horner(idx, dims, i + 1, acc * dims[i] + Eval(idx[i]))

(***************************************************************************)
(* Properties                                                              *)
(***************************************************************************)
\* C1: for every a && b and a || b of the program, wherever it occurs, when a
\* decides the outcome (false for &&, true for ||) no instruction emitted for
\* b is among the instructions the function executes.
ShortCircuitPreserved ==
    fn # 0 =>
    \A p \in Paths(root) :
        (/\ NodeAt(root, p).node_type \in {"and", "or"}
         /\ (NodeAt(root, p).node_type = "and") = (Eval(NodeAt(root, p).sons[1]) = 0))
        => \A k \in 1..Len(trace) : ~IsPrefix(p \o <<2>>, code[trace[k]].by)

LabelUniqueness ==
    (pc = "translated" /\ result = "ok") =>
    \A f \in User : \A i \in 1..Len(CodeOf(f)) : \A t \in Targets(CodeOf(f)[i]) :
        Cardinality({j \in 1..Len(CodeOf(f)) : CodeOf(f)[j].op = "label" /\ CodeOf(f)[j].id = t}) = 1

\* A successful translation of a while whose condition holds a unary minus
\* over a comparison under a short-circuit operator.
LabelUniquenessWitness ==
    /\ result = "ok"
    /\ \E f \in User :
         /\ \E i \in 1..Len(CodeOf(f)) : CodeOf(f)[i].role = "neg_continue"
         /\ \E i \in 1..Len(CodeOf(f)) : CodeOf(f)[i].role = "while_exit"
         /\ \E i \in 1..Len(CodeOf(f)) : CodeOf(f)[i].role = "check_expr2"

\* C4 (as the specification states it): whenever the executed function
\* reaches its exit label, the instruction executed just before is the goto
\* of a return statement.
ExitOnlyByReturnGoto ==
    fn # 0 =>
    \A k \in 1..Len(trace) :
        code[trace[k]].role = "exit_label" => k > 1 /\ code[trace[k - 1]].role = "ret_goto"

\* C4: every jump that targets a function's exit label is the goto of a
\* return statement, and the executed function reaches its exit label either
\* from such a goto or by falling through from the instruction before the
\* label, the last one of the body, which is not a jump.
ExitByReturnGotoOrFallThrough ==
    /\ result = "ok" =>
         \A f \in User : \A i \in 1..Len(CodeOf(f)) :
             module.funcs[f].exitLabel \in Targets(CodeOf(f)[i])
             => CodeOf(f)[i].op = "goto" /\ CodeOf(f)[i].role = "ret_goto"
    /\ fn # 0 =>
         \A k \in 1..Len(trace) :
             code[trace[k]].role = "exit_label"
             => /\ k > 1
                /\ \/ code[trace[k - 1]].role = "ret_goto"
                   \/ /\ trace[k - 1] = trace[k] - 1
                      /\ code[trace[k - 1]].op \notin {"goto", "bc"}

\* A run that has reached the exit label from the end of a body that holds a
\* loop with a break, without a return.
ExitByFallThroughWitness ==
    /\ fn # 0
    /\ \E i \in 1..Len(code) : code[i].role = "break"
    /\ \E k \in 2..Len(trace) :
         /\ code[trace[k]].role = "exit_label"
         /\ trace[k - 1] = trace[k] - 1
         /\ code[trace[k - 1]].op \notin {"goto", "bc"}

\* C5: every function of a successful translation starts with Entry, ends
\* with Exit and holds exactly one Exit; the Exit reads the function's return
\* slot; the slot exists, as a local of the function, exactly when the
\* return type is not void.
EntryExitShape ==
    result = "ok" =>
    \A f \in User :
        /\ Len(CodeOf(f)) >= 2
        /\ CodeOf(f)[1].op = "entry"
        /\ CodeOf(f)[Len(CodeOf(f))].op = "exit"
        /\ Cardinality({i \in 1..Len(CodeOf(f)) : CodeOf(f)[i].op = "exit"}) = 1
        /\ CodeOf(f)[Len(CodeOf(f))].ops = <<module.funcs[f].returnValue>>
        /\ IsNull(module.funcs[f].returnValue) <=> isVoidType(module.funcs[f].returnType)
        /\ ~IsNull(module.funcs[f].returnValue)
           => \E i \in 1..Len(module.funcs[f].varsVector) :
                  module.funcs[f].varsVector[i] = module.funcs[f].returnValue

\* A successful translation of a function with a return type, whose body
\* holds a return under an if as well as one at its end.
EntryExitShapeWitness ==
    /\ result = "ok"
    /\ \E f \in User :
         /\ ~isVoidType(module.funcs[f].returnType)
         /\ Cardinality({i \in 1..Len(CodeOf(f)) : CodeOf(f)[i].role = "ret_goto"}) > 1
         /\ \E i \in 1..Len(CodeOf(f)) : CodeOf(f)[i].role = "if_true"

\* C6: in a successful translation every return statement has emitted, last,
\* a goto to the exit label of its function and, when it carries an
\* expression, just before it a Move into the function's return slot.
ReturnLowering ==
    result = "ok" =>
    \A p \in Paths(root) :
        NodeAt(root, p).node_type = "return" =>
        \E fi \in EmittedBy(p) :
            /\ CodeOf(fi[1])[fi[2]].op = "goto"
            /\ CodeOf(fi[1])[fi[2]].t = module.funcs[fi[1]].exitLabel
            /\ \A fj \in EmittedBy(p) : fj[2] <= fi[2]
            /\ NodeAt(root, p).sons # <<>>
               => /\ CodeOf(fi[1])[fi[2] - 1].op = "assign"
                  /\ CodeOf(fi[1])[fi[2] - 1].by = p
                  /\ ~IsNull(module.funcs[fi[1]].returnValue)
                  /\ CodeOf(fi[1])[fi[2] - 1].ops[1] = module.funcs[fi[1]].returnValue

\* C7: a break (continue) inside a while has emitted a goto to the exit
\* (condition) label of the innermost while around it; with no while around
\* it the translation returns failure and the statement has emitted nothing.
BreakContinueTargets ==
    pc # "translate" =>
    \A p \in Paths(root) :
        NodeAt(root, p).node_type \in {"break", "continue"} =>
        IF EnclosingWhiles(p) = {}
        THEN result = "fail" /\ EmittedBy(p) = {}
        ELSE result = "ok" =>
             /\ EmittedBy(p) # {}
             /\ \A fi \in EmittedBy(p) :
                  /\ CodeOf(fi[1])[fi[2]].op = "goto"
                  /\ CodeOf(fi[1])[fi[2]].t =
                         LabelOf(Innermost(p), IF NodeAt(root, p).node_type = "break"
                                               THEN "while_exit" ELSE "while_cond")
                  /\ CodeOf(fi[1])[fi[2]].t # 0

\* C8: translating a program that uses a name without a visible declaration
\* returns failure, in whatever position the name is used.
UndefinedNameRejected ==
    (pc # "translate" /\ root \in {IntFunc(s) : s \in UndefinedUses}) => result = "fail"

\* C9: declaring a name its scope already has makes the translation return
\* failure, with or without an initializer; declaring it in an inner scope
\* succeeds, and the uses in that scope refer to the inner variable.
RedeclarationRejected ==
    pc # "translate" =>
    /\ root \in {IntFunc(s) : s \in SameScope} => result = "fail"
    /\ root \in {IntFunc(s) : s \in InnerScope} =>
         /\ result = "ok"
         /\ \A f \in User : \A i \in 1..Len(CodeOf(f)) :
              CodeOf(f)[i].role = "assign" =>
              \A k \in 1..2 :
                  CodeOf(f)[i].ops[k].kind = "local" =>
                  \A j \in 1..Len(module.funcs[f].varsVector) :
                      module.funcs[f].varsVector[j].name = CodeOf(f)[i].ops[k].name
                      => module.funcs[f].varsVector[j].id <= CodeOf(f)[i].ops[k].id

\* C10: translating a program with a call whose number of arguments is not
\* the callee's number of parameters returns failure, and no Call
\* instruction with such a number of arguments has been emitted.
ArityMismatchRejected ==
    (pc # "translate" /\ root \in BadCallPrograms) =>
    /\ result = "fail"
    /\ \A f \in User : \A i \in 1..Len(CodeOf(f)) :
         CodeOf(f)[i].op = "call"
         => Len(CodeOf(f)[i].ops) = Len(module.funcs[findFunction(module, CodeOf(f)[i].callee)].params)

\* C11: when the condition of an if or a while holds an error (an operand
\* without a value, or a value that is neither Int1 nor Int32) the
\* translation returns failure: no such program is reported translated.
ConditionErrorRejected ==
    (pc # "translate" /\ root \in BadConditionPrograms) => result = "fail"

\* The name a declared item gives its variable.
DeclaredName(item) == IF item.node_type = "var_decl" THEN item.sons[2].name ELSE item.sons[1].name

\* C12: after a successful translation every global declared without an
\* initializer is in the BSS section, and every global declared with a
\* non-zero literal initializer is not, and carries that value.
GlobalsMarked ==
    result = "ok" =>
    \A i \in 1..Len(root.sons) :
        root.sons[i].node_type = "decl_stmt" =>
        \A j \in 1..Len(root.sons[i].sons) :
            \E k \in 1..Len(module.globals) :
                /\ module.globals[k].val.name = DeclaredName(root.sons[i].sons[j])
                /\ root.sons[i].sons[j].node_type \in {"var_decl", "array_decl"}
                   => module.globals[k].inBSSSection
                /\ (/\ root.sons[i].sons[j].node_type = "var_init"
                    /\ root.sons[i].sons[j].sons[2].node_type = "uint"
                    /\ root.sons[i].sons[j].sons[2].integer_val # 0)
                   => /\ ~module.globals[k].inBSSSection
                      /\ module.globals[k].initialValue =
                             newConstInt(root.sons[i].sons[j].sons[2].integer_val)

\* C13: a global declaration whose initializer is not an integer constant
\* (it reads a variable, computes, or calls a function) makes the
\* translation return failure.
NonConstantGlobalRejected ==
    (pc # "translate" /\ root \in NonConstantGlobalPrograms) => result = "fail"

\* C14: an array declaration with a dimension that is not a positive integer
\* literal makes the translation return failure, and no array variable, local
\* or global, ever has a dimension below 1.
ArrayDimensionsChecked ==
    /\ (pc # "translate" /\ root \in BadArrayPrograms) => result = "fail"
    /\ \A f \in User : \A i \in 1..Len(module.funcs[f].varsVector) :
          isArrayType(module.funcs[f].varsVector[i].ty)
          => \A d \in 1..Len(module.funcs[f].varsVector[i].ty.dims) :
                 module.funcs[f].varsVector[i].ty.dims[d] > 0
    /\ \A k \in 1..Len(module.globals) :
          isArrayType(module.globals[k].val.ty)
          => \A d \in 1..Len(module.globals[k].val.ty.dims) : module.globals[k].val.ty.dims[d] > 0

\* The constant operands of the instructions of the translated functions.
ConstOperands ==
    UNION {UNION {{CodeOf(f)[i].ops[k] : k \in {j \in 1..Len(CodeOf(f)[i].ops) :
                                                   CodeOf(f)[i].ops[j].kind = "const"}} :
                  i \in 1..Len(CodeOf(f))} : f \in User}

\* C15: any two constant operands of the same value in the IR are the same
\* Value, the one the Module's interning operation returns for that value.
ConstIntInterned ==
    /\ \A c1 \in ConstOperands : \A c2 \in ConstOperands : c1.id = c2.id => c1 = c2
    /\ \A c \in ConstOperands : c = newConstInt(c.id)

\* The Values of a function that carry an IR name: formal parameters, locals,
\* mem variables, labels and instructions with a result.
NamedValues(F) ==
    {Key(F.params[i].val) : i \in 1..Len(F.params)}
    \cup {Key(F.varsVector[i]) : i \in 1..Len(F.varsVector)}
    \cup {Key(F.memVector[i]) : i \in 1..Len(F.memVector)}
    \cup {Key(AsValue(F.code[i])) : i \in {j \in 1..Len(F.code) :
                                              F.code[j].op = "label" \/ hasResultValue(F.code[j])}}

\* C16: after renameIR the indices of the named Values of every function that
\* is not built in are exactly 0..n-1, each used once, so that no two of them
\* share an IR name.
RenameContiguous ==
    pc = "renamed" =>
    \A f \in User :
        /\ DOMAIN module.funcs[f].irNames = NamedValues(module.funcs[f])
        /\ {module.funcs[f].irNames[k][2] : k \in NamedValues(module.funcs[f])}
               = 0..(Cardinality(NamedValues(module.funcs[f])) - 1)
        /\ \A k1 \in NamedValues(module.funcs[f]) : \A k2 \in NamedValues(module.funcs[f]) :
               module.funcs[f].irNames[k1] = module.funcs[f].irNames[k2] => k1 = k2

\* A renamed function with an array, a loaded element (a mem variable),
\* labels and instructions with a result.
RenameContiguousWitness ==
    /\ pc = "renamed"
    /\ \E f \in User :
         /\ module.funcs[f].memVector # <<>>
         /\ Len(module.funcs[f].varsVector) > 2
         /\ \E k \in DOMAIN module.funcs[f].irNames : module.funcs[f].irNames[k][1] = ".L"
         /\ \E k \in DOMAIN module.funcs[f].irNames :
                k[1] = "inst" /\ module.funcs[f].irNames[k][1] = "%t"

\* The instruction executed last, and whether it was a call whose arguments
\* were passed.
last_inst == code[trace[Len(trace)]]
CallPassed ==
    /\ pc \in {"exec", "done", "stuck"}
    /\ trace # <<>>
    /\ last_inst.op = "call"
    /\ lowered.args # <<>>

\* C17: whenever a call passes an array (a local array, or the caller's own
\* array parameter) as an argument, in a register or on the stack, the value
\* placed there is the array's address, never an element loaded through it.
ArrayArgumentByAddress ==
    CallPassed =>
    \A k \in 1..Len(last_inst.ops) :
        (isPointerType(last_inst.ops[k].ty) \/ isArrayType(last_inst.ops[k].ty)) =>
        /\ lowered.args[k] = ValueOf(last_inst.ops[k])
        /\ lowered.args[k].base # 0

\* MoveInstruction::toString: how the Move is printed.
toString(dst, src) ==
    IF isPointerType(dst.ty) /\ isPointerType(src.ty) THEN "dst = src"
    ELSE IF isPointerType(dst.ty) THEN "*dst = src"
    ELSE IF isPointerType(src.ty) THEN "dst = *src"
    ELSE "dst = src"

\* What a Move was lowered to: a store through a pointer, a load through a
\* pointer, or a copy.
LoweringOf(insts) ==
    IF \E i \in 1..Len(insts) : insts[i].op = "str" THEN "str"
    ELSE IF \E i \in 1..Len(insts) : insts[i].op = "ldr" THEN "ldr"
    ELSE "copy"

MoveLowered ==
    /\ pc \in {"exec", "done", "stuck"}
    /\ trace # <<>>
    /\ last_inst.op = "assign"
    /\ ~IsNull(last_inst.ops[1])

BranchOnLastComparison ==
    (pc # "translate" /\ result = "ok") =>
    \A f \in User : \A i \in 1..Len(module.funcs[f].code) :
        LET insts == module.funcs[f].code IN
        insts[i].op = "bc" =>
        /\ insts[i].ops[1].kind = "inst"
        /\ \E j \in 1..(i - 1) :
              /\ insts[j].op \in CmpOps
              /\ insts[j].id = insts[i].ops[1].id
              /\ \A k \in (j + 1)..(i - 1) : insts[k].op \notin CmpOps

\* C20: while a call with at least one argument is lowered, r0-r3 are held
\* in the register allocator at every line emitted for it, from the first
\* argument move, across bl, to the move of the result out of r0.
ArgRegistersPinnedThroughCall ==
    (/\ pc \in {"exec", "done", "stuck"}
     /\ trace # <<>>
     /\ last_inst.op = "call"
     /\ Len(last_inst.ops) > 0) =>
    \A i \in 1..Len(lowered.insts) : ArgRegisters \subseteq lowered.insts[i].regs

IRKept ==
    \A f \in 1..Len(module.funcs) :
        /\ module'.funcs[f].code = module.funcs[f].code
        /\ module'.funcs[f].params = module.funcs[f].params
        /\ module'.funcs[f].varsVector = module.funcs[f].varsVector
        /\ module'.funcs[f].memVector = module.funcs[f].memVector

\* C22: the selector only reads the IR: no handler changes a function's
\* instruction list or its tables of formal parameters, locals and mem
\* variables, whatever the instruction, a call with more than four
\* arguments included.
SelectionReadsIR ==
    [][(pc \in {"exec", "select"}) => IRKept]_vars

\* The positions in a function's code of the instructions that the handler
\* of the node at p created, and of those created below the node at q.
Own(f, p) == {i \in 1..Len(CodeOf(f)) : CodeOf(f)[i].by = p}
Below(f, q) == {i \in 1..Len(CodeOf(f)) : IsPrefix(q, CodeOf(f)[i].by)}
RoleAt(f, p, role) ==
    LET hits == {i \in Own(f, p) : CodeOf(f)[i].role = role}
    IN IF hits = {} THEN 0 ELSE CHOOSE i \in hits : TRUE
LabelsIn(f, positions) == {CodeOf(f)[i].id : i \in {j \in positions : CodeOf(f)[j].op = "label"}}

\* The break and continue statements whose innermost loop is the while at p.
LoopExits(p) ==
    {q \in Paths(root) : /\ NodeAt(root, q).node_type \in {"break", "continue"}
                         /\ EnclosingWhiles(q) # {}
                         /\ Innermost(q) = p}

\* C23: a while statement has emitted, in this order, its condition label,
\* the condition's code branching to the body label and the exit label, the
\* body label, the body's code, a goto to the condition label and the exit
\* label; a break or continue of the body whose innermost loop it is targets
\* its exit or condition label, before and after any loop nested in the
\* body, and no label is left on the loop label stack at the end.
WhileLowering ==
    (pc = "translated" /\ result = "ok") =>
    /\ module.loop_label_stack = <<>>
    /\ \A p \in Paths(root) : NodeAt(root, p).node_type = "while" =>
         /\ \E f \in User : Own(f, p) # {}
         /\ \A f \in User : Own(f, p) # {} =>
              LET c == CodeOf(f)
                  CondL == RoleAt(f, p, "while_cond")
                  BodyL == RoleAt(f, p, "while_body")
                  Back == RoleAt(f, p, "while_goto")
                  ExitL == RoleAt(f, p, "while_exit")
              IN /\ 0 < CondL /\ CondL < BodyL /\ BodyL < Back /\ ExitL = Back + 1
                 /\ Own(f, p) = {CondL, BodyL, Back, ExitL}
                 /\ Below(f, p \o <<1>>) = (CondL + 1)..(BodyL - 1)
                 /\ Below(f, p \o <<2>>) = (BodyL + 1)..(Back - 1)
                 /\ c[Back].op = "goto" /\ c[Back].t = c[CondL].id
                 /\ \A i \in Below(f, p \o <<1>>) :
                        Targets(c[i]) \subseteq LabelsIn(f, Below(f, p \o <<1>>)) \cup {c[BodyL].id, c[ExitL].id}
                 /\ NodeAt(root, p \o <<1>>).node_type = "lt" /\ Below(f, p \o <<1>>) # {} =>
                        /\ c[BodyL - 1].op = "bc"
                        /\ c[BodyL - 1].t = c[BodyL].id
                        /\ c[BodyL - 1].f = c[ExitL].id
                 /\ \A q \in LoopExits(p) : \A i \in Own(f, q) :
                        /\ c[i].op = "goto"
                        /\ c[i].t = IF NodeAt(root, q).node_type = "break" THEN c[ExitL].id ELSE c[CondL].id

\* A while whose body holds a nested while with a short-circuit condition
\* and, after it, a break of the outer loop.
WhileLoweringWitness ==
    /\ pc # "translate" /\ result = "ok"
    /\ \E p \in Paths(root), f \in User :
         /\ NodeAt(root, p).node_type = "while"
         /\ Own(f, p) # {}
         /\ \E q \in LoopExits(p) : Own(f, q) # {} /\ \E w \in Own(f, p \o <<2, 1>>) :
                CodeOf(f)[w].role = "while_exit" /\ \A i \in Own(f, q) : i > w
         /\ \E i \in Below(f, p \o <<2, 1, 1>>) : CodeOf(f)[i].role = "check_expr2"

UsesOf(f, v) == {i \in 1..Len(CodeOf(f)) : \E k \in 1..Len(CodeOf(f)[i].ops) : CodeOf(f)[i].ops[k] = v}

\* C25: an array reference that is the target of an assignment has emitted
\* its address computation and no load, and the address is the destination
\* of the assignment's Move; an array reference in any other position has
\* emitted, right after the address computation, a Move that loads through
\* the address into a fresh Int32 temporary, the address is used by nothing
\* but that load, and the temporary is what the enclosing code uses.
ArrayRefYield ==
    (pc = "translated" /\ result = "ok") =>
    \A p \in Paths(root) : NodeAt(root, p).node_type = "array_ref" =>
        \A f \in User : Own(f, p) # {} =>
            LET c == CodeOf(f)
                addr == RoleAt(f, p, "addr")
                load == RoleAt(f, p, "load")
                parent == SubSeq(p, 1, Len(p) - 1)
            IN /\ addr > 0
               /\ isPointerType(c[addr].ty)
               /\ IF /\ NodeAt(root, parent).node_type = "assign"
                     /\ p[Len(p)] = 1
                  THEN /\ load = 0
                       /\ \E i \in Own(f, parent) :
                            /\ c[i].op = "assign"
                            /\ c[i].ops[1] = AsValue(c[addr])
                            /\ UsesOf(f, AsValue(c[addr])) = {i}
                  ELSE /\ load = addr + 1
                       /\ c[load].op = "assign"
                       /\ c[load].ops[2] = AsValue(c[addr])
                       /\ UsesOf(f, AsValue(c[addr])) = {load}
                       /\ c[load].ops[1].kind = "mem"
                       /\ c[load].ops[1].ty = I32
                       /\ \A i \in UsesOf(f, c[load].ops[1]) : i >= load
                       /\ \E i \in UsesOf(f, c[load].ops[1]) :
                            i > load /\ (c[i].op = "assign" => c[i].ops[2] = c[load].ops[1])

\* An element is assigned whose index is itself an element, from an
\* element, and elements are a condition and a call argument.
ArrayRefYieldWitness ==
    /\ pc # "translate" /\ result = "ok"
    /\ \E p \in Paths(root), f \in User :
         /\ NodeAt(root, p).node_type = "assign"
         /\ \A s \in {p \o <<1>>, p \o <<1, 2, 1>>, p \o <<2>>} :
                s \in Paths(root) /\ NodeAt(root, s).node_type = "array_ref" /\ Own(f, s) # {}
         /\ \E q \in Paths(root) :
                /\ NodeAt(root, q).node_type = "if"
                /\ NodeAt(root, q \o <<1>>).node_type = "array_ref"
                /\ Own(f, q \o <<1>>) # {}
         /\ \E r \in Paths(root) :
                /\ NodeAt(root, r).node_type = "call"
                /\ NodeAt(root, r \o <<2>>).sons # <<>>
                /\ NodeAt(root, r \o <<2, 1>>).node_type = "array_ref"
                /\ Own(f, r \o <<2, 1>>) # {}

\* C26: when the translation of the compile unit has ended, with success or
\* with a reported error, the function definition and the blocks that were
\* entered have ended too: no function is current and the scope stack has
\* the depth it had before, the global scope alone.
ScopesRestored ==
    (pc \in {"translated", "failed"} /\ result \in {"ok", "fail"}) =>
        /\ module.cur = 0
        /\ Len(module.scopeStack) = Len(NewModule.scopeStack)

\* C27: after a translation that reported success, no instruction of a
\* translated function has a null operand: the operands of the binary
\* operators, the source and the destination of every Move, the arguments
\* of every call. (The exit instruction of a void function has no return
\* value by design and is not counted.)
OperandsNonNull ==
    (pc # "translate" /\ result = "ok") =>
    \A f \in User : \A i \in 1..Len(CodeOf(f)) :
        CodeOf(f)[i].op # "exit" =>
            \A k \in 1..Len(CodeOf(f)[i].ops) : ~IsNull(CodeOf(f)[i].ops[k])

\* The names the program declares as scalar int variables, with or without
\* an initializer.
DeclaredScalars ==
    {NodeAt(root, p).sons[IF NodeAt(root, p).node_type = "var_decl" THEN 2 ELSE 1].name :
        p \in {q \in Paths(root) : NodeAt(root, q).node_type \in {"var_decl", "var_init"}}}

\* C28: after a successful translation every variable that the program
\* declares as a scalar int, a global or a local of a function, has the IR
\* type Int32, whatever its initializer.
DeclaredIntIsInt32 ==
    (pc # "translate" /\ result = "ok") =>
        /\ \A f \in User : \A i \in 1..Len(module.funcs[f].varsVector) :
              module.funcs[f].varsVector[i].name \in DeclaredScalars
                  => module.funcs[f].varsVector[i].ty = I32
        /\ \A i \in 1..Len(module.globals) :
              module.globals[i].val.name \in DeclaredScalars => module.globals[i].val.ty = I32

\* The dimension vector that ir_array_ref finds for the array of that name
\* in function f: of a local or global array its type's, of an array
\* parameter the recorded original type's.
DimensionsOf(f, name) ==
    LET locals == {i \in 1..Len(module.funcs[f].varsVector) :
                      module.funcs[f].varsVector[i].name = name /\ isArrayType(module.funcs[f].varsVector[i].ty)}
        params == {i \in 1..Len(module.funcs[f].params) :
                      module.funcs[f].params[i].val.name = name /\ module.funcs[f].params[i].isArrayParam}
        globals == {i \in 1..Len(module.globals) :
                      module.globals[i].val.name = name /\ isArrayType(module.globals[i].val.ty)}
    IN IF locals # {} THEN module.funcs[f].varsVector[CHOOSE i \in locals : TRUE].ty.dims
       ELSE IF params # {} THEN module.funcs[f].params[CHOOSE i \in params : TRUE].originalDims
       ELSE IF globals # {} THEN module.globals[CHOOSE i \in globals : TRUE].val.ty.dims
       ELSE <<>>

\* C29: after a successful translation no array reference that was
\* translated has more index expressions than its array has dimensions.
ExcessIndexesRejected ==
    (pc # "translate" /\ result = "ok") =>
    \A p \in Paths(root) : NodeAt(root, p).node_type = "array_ref" =>
        \A f \in User : Own(f, p) # {} =>
            Len(NodeAt(root, p).sons[2].sons) <= Len(DimensionsOf(f, NodeAt(root, p).sons[1].name))

\* C30: when the translation has ended, with success or with a reported
\* error, the loop label stack is empty, so that every function definition
\* begins and ends with an empty stack and every while statement, the
\* failed ones too, has taken its labels off again; and in the translated
\* code every break and continue jumps to the exit or the condition label
\* of its innermost enclosing while, from between that loop's condition
\* label and exit label in the same function.
LoopStackBalanced ==
    (pc \in {"translated", "failed"} /\ result \in {"ok", "fail"}) =>
    /\ module.loop_label_stack = <<>>
    /\ result = "ok" =>
         \A f \in User : \A i \in 1..Len(CodeOf(f)) :
             CodeOf(f)[i].role \in {"break", "continue"} =>
                 /\ EnclosingWhiles(CodeOf(f)[i].by) # {}
                 /\ LET w == Innermost(CodeOf(f)[i].by)
                        target == RoleAt(f, w, IF CodeOf(f)[i].role = "break"
                                               THEN "while_exit" ELSE "while_cond")
                    IN /\ target > 0
                       /\ CodeOf(f)[i].t = CodeOf(f)[target].id
                       /\ RoleAt(f, w, "while_cond") < i
                       /\ i < RoleAt(f, w, "while_exit")

\* A translation that failed in the body of a while nested in a while,
\* after a break of the inner loop was translated.
LoopStackBalancedWitness ==
    /\ pc = "failed" /\ result = "fail"
    /\ module.cur # 0
    /\ \E p \in Paths(root) :
         /\ NodeAt(root, p).node_type = "while"
         /\ NodeAt(root, p \o <<2>>).node_type = "while"
         /\ NodeAt(root, p \o <<2, 2>>).node_type = "block"
         /\ NodeAt(root, p \o <<2, 2, 1>>).node_type = "break"

====
